---- MODULE Spec2Model ----
(***************************************************************************)
(* Sweet Shop backend: the catalog service (SweetService) and the          *)
(* inventory ledger (InventoryService) over the persisted Sweet table.     *)
(* Every service method is split at its awaits: one action per Prisma      *)
(* round-trip, so that concurrent requests interleave as they do on the    *)
(* Node event loop with a shared database.                                 *)
(***************************************************************************)
EXTENDS Integers, Sequences, FiniteSets, TLC

\* ---------------------------------------------------------------- bounds
NProcs == 2        \* concurrent requests in flight
MaxInitQty == 2    \* largest stock of a Sweet in an initial table
MaxSeqReqs == 5    \* requests of one sequential client

Procs == 1..NProcs
\* Row identifiers are opaque strings (cuid); the table hands them out in this order.
IdPool == <<"sweet-1", "sweet-2", "sweet-3">>
\* An identifier no create hands out (a client's own).
CustomId == "custom-id"
Ids == {IdPool[i] : i \in 1..Len(IdPool)} \cup {CustomId}
Names == {"Barfi", "Ladoo"}

\* ------------------------------------------------------- numbers (inputs)
\* A JavaScript number with one decimal digit: whole + frac/10, frac in 0..9.
Num(w, f) == [whole |-> w, frac |-> f]
NumberIsInteger(x) == x.frac = 0
LeqZero(x) == x.whole < 0 \/ (x.whole = 0 /\ x.frac = 0)

\* ----------------------------------------------------------- error texts
OK == "ok"
NotFoundMsg == "Sweet not found"
InsufficientMsg == "Insufficient quantity available"
PurchaseQtyMsg == "Purchase quantity must be greater than zero"
RestockQtyMsg == "Restock quantity must be greater than zero"
NameExistsMsg == "Sweet with this name already exists"
\* Prisma's own errors (storage errors, not application messages)
P2002 == "P2002 Unique constraint failed on the fields: (name)"
P2025 == "P2025 Record to update not found"
P2002Id == "P2002 Unique constraint failed on the fields: (id)"
\* The database cannot be reached (storage unavailable)
P1001 == "P1001 Cannot reach database server"
PrismaValidationMsg == "Invalid prisma.sweet.update() invocation: invalid value"

\* ------------------------------------------------------------ JSON values
\* A value of a JSON body or of a query string: absent, a string or a number.
JAbsent == [t |-> "absent", s |-> "", n |-> Num(0, 0)]
JStr(x) == [t |-> "str", s |-> x, n |-> Num(0, 0)]
JNum(w, f) == [t |-> "num", s |-> "", n |-> Num(w, f)]

\* What is not a JavaScript number (NaN, or a value of another type):
\* Number.isInteger is false of it.
NotANumber == Num(0, -1)
IsNaN(x) == x.frac < 0
Tenths(x) == x.whole * 10 + x.frac

\* JavaScript's Number(s) on the strings the requests carry.
ParseNumber(s) ==
    CASE s = "" -> Num(0, 0)
      [] s = "0" -> Num(0, 0)
      [] s = "1" -> Num(1, 0)
      [] s = "20" -> Num(20, 0)
      [] s = "40" -> Num(40, 0)
      [] s = "60" -> Num(60, 0)
      [] s = "-5" -> Num(-5, 0)
      [] OTHER -> NotANumber

\* z.coerce.number(): Number(value).
Coerce(v) ==
    CASE v.t = "num" -> v.n
      [] v.t = "str" -> ParseNumber(v.s)
      [] OTHER -> NotANumber

BodyFields == {"name", "category", "price", "quantity", "description", "id",
               "minPrice", "maxPrice"}
NoBody == [k \in BodyFields |-> JAbsent]
Keys(b) == {k \in BodyFields : b[k].t # "absent"}

\* ------------------------------------------------------------ Zod schemas
\* z.string().min(1)
NonEmptyString(v) == v.t = "str" /\ v.s # ""
\* z.string()
AnyString(v) == v.t = "str"
\* .positive() on a number
Positive(x) == ~IsNaN(x) /\ ~LeqZero(x)
\* .int().min(0) on a number
NonNegativeInt(x) == ~IsNaN(x) /\ NumberIsInteger(x) /\ x.whole >= 0
\* .int().positive() on a number
PositiveInt(x) == ~IsNaN(x) /\ NumberIsInteger(x) /\ x.whole > 0
\* .optional(): undefined passes, anything else goes to the inner schema
Optional(v, inner) == v.t = "absent" \/ inner

\* Mutant of CreateSweetSchema: price is any number.
CreateSweetSchemaAnyPrice(b) ==
    /\ NonEmptyString(b.name)
    /\ NonEmptyString(b.category)
    /\ b.price.t = "num"
    /\ b.quantity.t = "num" /\ NonNegativeInt(b.quantity.n)
    /\ Optional(b.description, AnyString(b.description))

CreateSweetSchema(b) ==
    /\ NonEmptyString(b.name)
    /\ NonEmptyString(b.category)
    /\ b.price.t = "num" /\ Positive(b.price.n)
    /\ b.quantity.t = "num" /\ NonNegativeInt(b.quantity.n)
    /\ Optional(b.description, AnyString(b.description))

\* Mutant of UpdateSweetSchema: price is any number.
UpdateSweetSchemaAnyPrice(b) ==
    /\ Optional(b.name, NonEmptyString(b.name))
    /\ Optional(b.category, NonEmptyString(b.category))
    /\ Optional(b.price, ~IsNaN(Coerce(b.price)))
    /\ Optional(b.quantity, NonNegativeInt(Coerce(b.quantity)))
    /\ Optional(b.description, AnyString(b.description))

UpdateSweetSchema(b) ==
    /\ Optional(b.name, NonEmptyString(b.name))
    /\ Optional(b.category, NonEmptyString(b.category))
    /\ Optional(b.price, Positive(Coerce(b.price)))
    /\ Optional(b.quantity, NonNegativeInt(Coerce(b.quantity)))
    /\ Optional(b.description, AnyString(b.description))

\* Mutant of SearchSweetSchema: minPrice must be below maxPrice.
SearchSweetSchemaStrict(b) ==
    /\ Optional(b.name, AnyString(b.name))
    /\ Optional(b.category, AnyString(b.category))
    /\ Optional(b.minPrice, Positive(Coerce(b.minPrice)))
    /\ Optional(b.maxPrice, Positive(Coerce(b.maxPrice)))
    /\ (b.minPrice.t # "absent" /\ b.maxPrice.t # "absent")
            => Tenths(Coerce(b.minPrice)) < Tenths(Coerce(b.maxPrice))

\* The refinement runs once the object itself is valid; 0 and NaN are falsy.
SearchSweetSchema(b) ==
    /\ Optional(b.name, AnyString(b.name))
    /\ Optional(b.category, AnyString(b.category))
    /\ Optional(b.minPrice, Positive(Coerce(b.minPrice)))
    /\ Optional(b.maxPrice, Positive(Coerce(b.maxPrice)))
    /\ (b.minPrice.t # "absent" /\ b.maxPrice.t # "absent")
            => Tenths(Coerce(b.minPrice)) <= Tenths(Coerce(b.maxPrice))

PurchaseSweetSchema(b) == PositiveInt(Coerce(b.quantity))
RestockSweetSchema(b) == PositiveInt(Coerce(b.quantity))

\* ------------------------------------------------------------- middleware
NoTokenMsg == "Access denied. No token provided."
InvalidTokenMsg == "Invalid token."
AdminRequiredMsg == "Access denied. Admin role required."
ValidationFailedMsg == "Validation failed"

Pass == [status |-> 0, error |-> ""]
Reject(st, msg) == [status |-> st, error |-> msg]

\* Mutant of authenticate: the token is not verified.
authenticateUnverified(h) ==
    IF h.cred = "none" THEN Reject(401, NoTokenMsg) ELSE Pass

\* authenticate: no token, or a token that verifyToken refuses, ends the request.
authenticate(h) ==
    IF h.cred = "none" THEN Reject(401, NoTokenMsg)
    ELSE IF h.cred = "invalid" THEN Reject(401, InvalidTokenMsg)
    ELSE Pass

\* requireAdmin: the verified token's role must be ADMIN.
requireAdmin(h) ==
    IF h.cred # "admin" THEN Reject(403, AdminRequiredMsg) ELSE Pass

\* The HTTP method of each route and the schema its validate() was built with.
IsPost(route) == route \in {"create", "purchase", "restock"}
SchemaAccepts(route, b) ==
    CASE route = "create" -> CreateSweetSchema(b)
      [] route = "update" -> UpdateSweetSchema(b)
      [] route = "search" -> SearchSweetSchema(b)
      [] route = "purchase" -> PurchaseSweetSchema(b)
      [] route = "restock" -> RestockSweetSchema(b)
      [] OTHER -> TRUE

\* validate(schema): a POST needs a body; then the schema parses the body (or
\* the query); the parsed value is dropped, the request keeps its own body.
validate(h) ==
    IF h.route # "search" /\ IsPost(h.route) /\ Keys(h.body) = {}
    THEN Reject(400, ValidationFailedMsg)
    ELSE IF ~SchemaAccepts(h.route, h.body) THEN Reject(400, ValidationFailedMsg)
    ELSE Pass

\* The middleware each route of /api/sweets runs, in registration order.
Chain(route) ==
    CASE route \in {"create", "search", "update", "purchase"} ->
            <<"authenticate", "validate">>
      [] route = "list" -> <<"authenticate">>
      [] route = "delete" -> <<"authenticate", "requireAdmin">>
      [] route = "restock" -> <<"authenticate", "validate", "requireAdmin">>

Routes == {"create", "list", "search", "update", "delete", "purchase", "restock"}

Outcome(m, h) ==
    CASE m = "authenticate" -> authenticate(h)
      [] m = "requireAdmin" -> requireAdmin(h)
      [] m = "validate" -> validate(h)

\* Express runs the chain until a middleware responds instead of calling next().
RECURSIVE RunFrom(_, _)
RunFrom(h, k) ==
    IF k > Len(Chain(h.route)) THEN [h EXCEPT !.stage = "controller"]
    ELSE LET m == Chain(h.route)[k]
             o == Outcome(m, h)
             h2 == [h EXCEPT !.ran = Append(@, m)]
         IN  IF o.status # 0
             THEN [h2 EXCEPT !.stage = "responded", !.status = o.status, !.error = o.error]
             ELSE RunFrom(h2, k + 1)

\* -------------------------------------------------------- search criteria
\* Search criteria as the service receives them (SearchSweetInput).
Criteria(fs, n, c, lo, hi) ==
    [fields |-> fs, name |-> n, category |-> c, minPrice |-> lo, maxPrice |-> hi]
NoCriteria == Criteria({}, "", "", Num(0, 0), Num(0, 0))

\* The where clause searchSweets builds: a filter per truthy text criterion, a
\* price bound per supplied bound.
Where(c) ==
    [name |-> "name" \in c.fields /\ c.name # "",
     category |-> "category" \in c.fields /\ c.category # "",
     gte |-> "minPrice" \in c.fields,
     lte |-> "maxPrice" \in c.fields,
     c |-> c]
NoWhere == Where(NoCriteria)

\* ------------------------------------------------------------------ state
VARIABLES
    sweets,   \* the Sweet table: id -> row (live = FALSE: no such row)
    req,      \* per request slot: the call, its position and its locals
    nextId,   \* next identifier the table hands out on create
    base,     \* history: quantity of each Sweet in the initial table
    sold,     \* history: units of each Sweet taken by successful purchases
    added,    \* history: units of each Sweet added by successful restocks
    log,      \* history: completed requests of the sequential client
    http,     \* per request slot: the HTTP request, the middleware run, the response
    clock,    \* the database server's time
    users,    \* the User table: id -> row (live = FALSE: no such row)
    ureq,     \* per request slot: the call of the user service and its locals
    store,    \* the state of the frontend's sweet store
    calls     \* per slot: an asynchronous store action awaiting the API

vars == <<sweets, req, nextId, base, sold, added, log, http, clock, users, ureq, store, calls>>

NoRow == [live |-> FALSE, name |-> "", category |-> "", price |-> 0, quantity |-> 0,
          description |-> "", createdAt |-> 0, updatedAt |-> 0]
\* A Sweet of the default category, without description, written at time 0.
Row(n, pr, q) == [live |-> TRUE, name |-> n, category |-> "Mithai", price |-> pr,
                  quantity |-> q, description |-> "", createdAt |-> 0, updatedAt |-> 0]

\* A create or update payload: the fields supplied and their values.
NoData == [fields |-> {}, name |-> "", category |-> "", price |-> 0, quantity |-> 0,
           description |-> "", id |-> "", bad |-> FALSE]
\* A payload of well-typed values (bad: some value has not its column's type).
Data(fs, n, pr, q) == [fields |-> fs, name |-> n, category |-> "Mithai", price |-> pr,
                       quantity |-> q, description |-> "", id |-> "", bad |-> FALSE]
AllFields == {"name", "price", "quantity"}
Idle == [op |-> "none", pc |-> "idle", id |-> "", qty |-> Num(0, 0),
         data |-> NoData, sweet |-> NoRow, result |-> "none", wrote |-> FALSE,
         where |-> NoWhere, rows |-> <<>>]

\* An HTTP exchange: nothing received yet (n: requests received so far).
NoHttp == [stage |-> "none", route |-> "none", cred |-> "none", id |-> "",
           body |-> NoBody, ran |-> <<>>, status |-> 0, error |-> "", result |-> "none", n |-> 0]

\* The User table and a user row.
UserPool == <<"user-1", "user-2", "user-3">>
UserIds == {UserPool[k] : k \in 1..Len(UserPool)}
NoUser == [live |-> FALSE, email |-> "", password |-> "", name |-> "", role |-> "",
           createdAt |-> 0]
NoUsers == [i \in UserIds |-> NoUser]

\* A JSON body of the user routes.
UserFields == {"email", "password", "name", "role"}
NoUserBody == [k \in UserFields |-> JAbsent]

\* What a user service method returns: the properties of the object and their
\* values (token: the claims the token is signed over).
NoOut == [fields |-> {}, id |-> "", email |-> "", name |-> "", role |-> "",
          password |-> "", createdAt |-> 0, token |-> <<>>]

\* A call of the user service: nothing called yet.
UIdle == [op |-> "none", pc |-> "idle", body |-> NoUserBody, id |-> "",
          existing |-> NoUser, hashed |-> "", out |-> NoOut, result |-> "none",
          status |-> 0, wrote |-> FALSE]

\* The sweet store as created: no sweets, no search term, no filters.
NoFilters == [fields |-> {}, minPrice |-> 0, maxPrice |-> 0, inStock |-> FALSE]
EmptyStore == [sweets |-> <<>>, isLoading |-> FALSE, error |-> "", searchTerm |-> "",
               filters |-> NoFilters, filteredSweets |-> <<>>]

\* A store action: none in flight in this slot.
NoCall == [op |-> "none", id |-> "", pc |-> "idle"]

\* Every write stamps the row with the server's time (updatedAt).
Touched(row) == [row EXCEPT !.updatedAt = clock]

\* Request slots are interchangeable: they are taken in order.
Free(p) == req[p].pc = "idle" /\ \A r \in Procs : r < p => req[r].pc # "idle"

Finish(r, res, w) == [r EXCEPT !.pc = "done", !.result = res, !.wrote = w]

\* ------------------------------------------------ InventoryService steps
\* purchaseSweet, synchronous prefix: the quantity guard, then the read is issued.
PurchaseCall(p, id, q) ==
    /\ Free(p)
    /\ LET r == [Idle EXCEPT !.op = "purchase", !.id = id, !.qty = q]
       IN  req' = [req EXCEPT ![p] =
                IF ~NumberIsInteger(q) \/ LeqZero(q)
                THEN Finish(r, PurchaseQtyMsg, FALSE)
                ELSE [r EXCEPT !.pc = "find"]]
    /\ UNCHANGED <<sweets, nextId, base, sold, added, log, http, clock, users, ureq, store, calls>>

\* Mutant of PurchaseFind: the stock check is missing.
PurchaseFindNoStockCheck(p) ==
    /\ req[p].pc = "find" /\ req[p].op = "purchase"
    /\ LET s == sweets[req[p].id]
       IN  req' = [req EXCEPT ![p] =
                IF ~s.live THEN Finish(@, NotFoundMsg, FALSE)
                ELSE [@ EXCEPT !.pc = "write", !.sweet = s]]
    /\ UNCHANGED <<sweets, nextId, base, sold, added, log, http, clock, users, ureq, store, calls>>

\* Mutant of PurchaseFind: the stock check rejects a request for the whole stock.
PurchaseFindOffByOne(p) ==
    /\ req[p].pc = "find" /\ req[p].op = "purchase"
    /\ LET s == sweets[req[p].id]
       IN  req' = [req EXCEPT ![p] =
                IF ~s.live THEN Finish(@, NotFoundMsg, FALSE)
                ELSE IF s.quantity <= req[p].qty.whole
                     THEN Finish([@ EXCEPT !.sweet = s], InsufficientMsg, FALSE)
                     ELSE [@ EXCEPT !.pc = "write", !.sweet = s]]
    /\ UNCHANGED <<sweets, nextId, base, sold, added, log, http, clock, users, ureq, store, calls>>

\* purchaseSweet: findUnique resolves, then the existence and stock checks.
PurchaseFind(p) ==
    /\ req[p].pc = "find" /\ req[p].op = "purchase"
    /\ LET s == sweets[req[p].id]
       IN  req' = [req EXCEPT ![p] =
                IF ~s.live THEN Finish(@, NotFoundMsg, FALSE)
                ELSE IF s.quantity < req[p].qty.whole
                     THEN Finish([@ EXCEPT !.sweet = s], InsufficientMsg, FALSE)
                     ELSE [@ EXCEPT !.pc = "write", !.sweet = s]]
    /\ UNCHANGED <<sweets, nextId, base, sold, added, log, http, clock, users, ureq, store, calls>>

\* Mutant of PurchaseUpdate: the write has no where clause (every Sweet is set).
PurchaseUpdateMany(p) ==
    /\ req[p].pc = "write" /\ req[p].op = "purchase"
    /\ LET id == req[p].id
           n == req[p].qty.whole
       IN  IF sweets[id].live
           THEN /\ sweets' = [i \in Ids |->
                        IF sweets[i].live
                        THEN Touched([sweets[i] EXCEPT !.quantity = req[p].sweet.quantity - n])
                        ELSE sweets[i]]
                /\ req' = [req EXCEPT ![p] = Finish(@, OK, TRUE)]
                /\ sold' = [sold EXCEPT ![id] = @ + n]
           ELSE /\ req' = [req EXCEPT ![p] = Finish(@, P2025, FALSE)]
                /\ UNCHANGED <<sweets, sold>>
    /\ UNCHANGED <<nextId, base, added, log, http, clock, users, ureq, store, calls>>

\* purchaseSweet: prisma.sweet.update writes the quantity computed from the read.
PurchaseUpdate(p) ==
    /\ req[p].pc = "write" /\ req[p].op = "purchase"
    /\ LET id == req[p].id
           n == req[p].qty.whole
       IN  IF sweets[id].live
           THEN /\ sweets' = [sweets EXCEPT ![id] = Touched([@ EXCEPT !.quantity = req[p].sweet.quantity - n])]
                /\ req' = [req EXCEPT ![p] = Finish(@, OK, TRUE)]
                /\ sold' = [sold EXCEPT ![id] = @ + n]
           ELSE /\ req' = [req EXCEPT ![p] = Finish(@, P2025, FALSE)]
                /\ UNCHANGED <<sweets, sold>>
    /\ UNCHANGED <<nextId, base, added, log, http, clock, users, ureq, store, calls>>

\* Mutant of RestockCall: the guard lets zero through.
RestockCallZeroAllowed(p, id, q) ==
    /\ Free(p)
    /\ LET r == [Idle EXCEPT !.op = "restock", !.id = id, !.qty = q]
       IN  req' = [req EXCEPT ![p] =
                IF ~NumberIsInteger(q) \/ q.whole < 0
                THEN Finish(r, RestockQtyMsg, FALSE)
                ELSE [r EXCEPT !.pc = "find"]]
    /\ UNCHANGED <<sweets, nextId, base, sold, added, log, http, clock, users, ureq, store, calls>>

\* restockSweet, synchronous prefix: the quantity guard.
RestockCall(p, id, q) ==
    /\ Free(p)
    /\ LET r == [Idle EXCEPT !.op = "restock", !.id = id, !.qty = q]
       IN  req' = [req EXCEPT ![p] =
                IF ~NumberIsInteger(q) \/ LeqZero(q)
                THEN Finish(r, RestockQtyMsg, FALSE)
                ELSE [r EXCEPT !.pc = "find"]]
    /\ UNCHANGED <<sweets, nextId, base, sold, added, log, http, clock, users, ureq, store, calls>>

\* restockSweet: findUnique resolves, then the existence check.
RestockFind(p) ==
    /\ req[p].pc = "find" /\ req[p].op = "restock"
    /\ LET s == sweets[req[p].id]
       IN  req' = [req EXCEPT ![p] =
                IF ~s.live THEN Finish(@, NotFoundMsg, FALSE)
                ELSE [@ EXCEPT !.pc = "write", !.sweet = s]]
    /\ UNCHANGED <<sweets, nextId, base, sold, added, log, http, clock, users, ureq, store, calls>>

\* Mutant of RestockUpdate: the write sets the quantity to the restocked amount.
RestockUpdateOverwrite(p) ==
    /\ req[p].pc = "write" /\ req[p].op = "restock"
    /\ LET id == req[p].id
           n == req[p].qty.whole
       IN  IF sweets[id].live
           THEN /\ sweets' = [sweets EXCEPT ![id] = Touched([@ EXCEPT !.quantity = n])]
                /\ req' = [req EXCEPT ![p] = Finish(@, OK, TRUE)]
                /\ added' = [added EXCEPT ![id] = @ + n]
           ELSE /\ req' = [req EXCEPT ![p] = Finish(@, P2025, FALSE)]
                /\ UNCHANGED <<sweets, added>>
    /\ UNCHANGED <<nextId, base, sold, log, http, clock, users, ureq, store, calls>>

\* restockSweet: prisma.sweet.update writes the quantity computed from the read.
RestockUpdate(p) ==
    /\ req[p].pc = "write" /\ req[p].op = "restock"
    /\ LET id == req[p].id
           n == req[p].qty.whole
       IN  IF sweets[id].live
           THEN /\ sweets' = [sweets EXCEPT ![id] = Touched([@ EXCEPT !.quantity = req[p].sweet.quantity + n])]
                /\ req' = [req EXCEPT ![p] = Finish(@, OK, TRUE)]
                /\ added' = [added EXCEPT ![id] = @ + n]
           ELSE /\ req' = [req EXCEPT ![p] = Finish(@, P2025, FALSE)]
                /\ UNCHANGED <<sweets, added>>
    /\ UNCHANGED <<nextId, base, sold, log, http, clock, users, ureq, store, calls>>

\* -------------------------------------------------- SweetService steps
\* The rows other than `self` that hold `name`: what findUnique({where: {name}})
\* finds, and what the UNIQUE index on name refuses.
NameHolders(name, self) ==
    {i \in Ids : i # self /\ sweets[i].live /\ sweets[i].name = name}

\* The UNIQUE constraint of the sweets table on name (Persistence, spec section 6).
UniqueViolation(name, self) == NameHolders(name, self) # {}

\* The table can still hand out an id to every create in flight.
CanCreate ==
    nextId + Cardinality({p \in Procs : req[p].op = "create" /\ req[p].pc \in {"find", "write"}})
        <= Len(IdPool)

\* createSweet is called: the name lookup is issued.
CreateCall(p, d) ==
    /\ Free(p) /\ CanCreate
    /\ req' = [req EXCEPT ![p] = [Idle EXCEPT !.op = "create", !.data = d, !.pc = "find"]]
    /\ UNCHANGED <<sweets, nextId, base, sold, added, log, http, clock, users, ureq, store, calls>>

\* Mutant of CreateFind: the name check is missing.
CreateFindNoCheck(p) ==
    /\ req[p].pc = "find" /\ req[p].op = "create"
    /\ req' = [req EXCEPT ![p].pc = "write"]
    /\ UNCHANGED <<sweets, nextId, base, sold, added, log, http, clock, users, ureq, store, calls>>

\* createSweet: findUnique by name resolves, then the uniqueness check.
CreateFind(p) ==
    /\ req[p].pc = "find" /\ req[p].op = "create"
    /\ req' = [req EXCEPT ![p] =
            IF NameHolders(req[p].data.name, "") # {}
            THEN Finish(@, NameExistsMsg, FALSE)
            ELSE [@ EXCEPT !.pc = "write"]]
    /\ UNCHANGED <<sweets, nextId, base, sold, added, log, http, clock, users, ureq, store, calls>>

\* The row prisma.sweet.create inserts: the payload's columns, both timestamps now.
Created(d) ==
    [live |-> TRUE, name |-> d.name, category |-> d.category, price |-> d.price,
     quantity |-> d.quantity, description |-> d.description,
     createdAt |-> clock, updatedAt |-> clock]

\* Mutant of CreateWrite: the table has no unique index on name.
CreateWriteNoIndex(p) ==
    /\ req[p].pc = "write" /\ req[p].op = "create"
    /\ LET d == req[p].data
           id == IdPool[nextId]
       IN  /\ sweets' = [sweets EXCEPT ![id] = Created(d)]
           /\ nextId' = nextId + 1
           /\ req' = [req EXCEPT ![p] = Finish([@ EXCEPT !.id = id], OK, TRUE)]
           /\ base' = [base EXCEPT ![id] = d.quantity]
           /\ UNCHANGED <<sold, added>>
    /\ UNCHANGED <<log, http, clock, users, ureq, store, calls>>

\* createSweet: prisma.sweet.create inserts the row under a fresh id.
CreateWrite(p) ==
    /\ req[p].pc = "write" /\ req[p].op = "create"
    /\ LET d == req[p].data
           id == IdPool[nextId]
       IN  IF UniqueViolation(d.name, "")
           THEN /\ req' = [req EXCEPT ![p] = Finish(@, P2002, FALSE)]
                /\ UNCHANGED <<sweets, nextId, base, sold, added>>
           ELSE /\ sweets' = [sweets EXCEPT ![id] = Created(d)]
                /\ nextId' = nextId + 1
                /\ req' = [req EXCEPT ![p] = Finish([@ EXCEPT !.id = id], OK, TRUE)]
                /\ base' = [base EXCEPT ![id] = d.quantity]
                /\ UNCHANGED <<sold, added>>
    /\ UNCHANGED <<log, http, clock, users, ureq, store, calls>>

\* updateSweet is called: the lookup by id is issued.
UpdateCall(p, id, d) ==
    /\ Free(p)
    /\ req' = [req EXCEPT ![p] =
            [Idle EXCEPT !.op = "update", !.id = id, !.data = d, !.pc = "find"]]
    /\ UNCHANGED <<sweets, nextId, base, sold, added, log, http, clock, users, ureq, store, calls>>

\* updateSweet: findUnique by id resolves; a changed name goes on to the name lookup.
UpdateFind(p) ==
    /\ req[p].pc = "find" /\ req[p].op = "update"
    /\ LET s == sweets[req[p].id]
           d == req[p].data
       IN  req' = [req EXCEPT ![p] =
                IF ~s.live THEN Finish(@, NotFoundMsg, FALSE)
                ELSE IF "name" \in d.fields /\ d.name # "" /\ d.name # s.name
                     THEN [@ EXCEPT !.pc = "findName", !.sweet = s]
                     ELSE [@ EXCEPT !.pc = "write", !.sweet = s]]
    /\ UNCHANGED <<sweets, nextId, base, sold, added, log, http, clock, users, ureq, store, calls>>

\* Mutant of UpdateFindName: the conflict check is missing.
UpdateFindNameNoCheck(p) ==
    /\ req[p].pc = "findName" /\ req[p].op = "update"
    /\ req' = [req EXCEPT ![p].pc = "write"]
    /\ UNCHANGED <<sweets, nextId, base, sold, added, log, http, clock, users, ureq, store, calls>>

\* updateSweet: findUnique by the new name resolves, then the conflict check.
UpdateFindName(p) ==
    /\ req[p].pc = "findName" /\ req[p].op = "update"
    /\ req' = [req EXCEPT ![p] =
            IF NameHolders(req[p].data.name, "") # {}
            THEN Finish(@, NameExistsMsg, FALSE)
            ELSE [@ EXCEPT !.pc = "write"]]
    /\ UNCHANGED <<sweets, nextId, base, sold, added, log, http, clock, users, ureq, store, calls>>

\* Mutant of Patched: the payload replaces the row, absent fields by defaults.
PatchedWhole(row, d) ==
    [row EXCEPT !.name = d.name, !.category = d.category, !.price = d.price,
                !.quantity = d.quantity, !.description = d.description]

\* The row after prisma.sweet.update({data: updateData}): supplied fields only.
Patched(row, d) ==
    [row EXCEPT !.name = IF "name" \in d.fields THEN d.name ELSE @,
                !.category = IF "category" \in d.fields THEN d.category ELSE @,
                !.price = IF "price" \in d.fields THEN d.price ELSE @,
                !.quantity = IF "quantity" \in d.fields THEN d.quantity ELSE @,
                !.description = IF "description" \in d.fields THEN d.description ELSE @]

\* The primary key the row has after the update: data.id when the payload has one.
Target(id, d) == IF "id" \in d.fields THEN d.id ELSE id

\* updateSweet: prisma.sweet.update writes the supplied fields.
UpdateWrite(p) ==
    /\ req[p].pc = "write" /\ req[p].op = "update"
    /\ LET id == req[p].id
           d == req[p].data
           to == Target(id, d)
           fail(msg) == /\ req' = [req EXCEPT ![p] = Finish(@, msg, FALSE)]
                        /\ UNCHANGED <<sweets, base, sold, added>>
       IN  IF d.bad THEN fail(PrismaValidationMsg)
           ELSE IF ~sweets[id].live THEN fail(P2025)
           ELSE IF "name" \in d.fields /\ UniqueViolation(d.name, id) THEN fail(P2002)
           ELSE IF to # id /\ sweets[to].live THEN fail(P2002Id)
           ELSE /\ sweets' = [sweets EXCEPT ![id] = NoRow,
                                            ![to] = Touched(Patched(sweets[id], d))]
                /\ req' = [req EXCEPT ![p] = Finish(@, OK, TRUE)]
                /\ LET q == "quantity" \in d.fields
                   IN  /\ base' = [base EXCEPT ![id] = 0,
                                               ![to] = IF q THEN d.quantity ELSE base[id]]
                       /\ sold' = [sold EXCEPT ![id] = 0, ![to] = IF q THEN 0 ELSE sold[id]]
                       /\ added' = [added EXCEPT ![id] = 0, ![to] = IF q THEN 0 ELSE added[id]]
    /\ UNCHANGED <<nextId, log, http, clock, users, ureq, store, calls>>

\* deleteSweet is called: the lookup by id is issued.
DeleteCall(p, id) ==
    /\ Free(p)
    /\ req' = [req EXCEPT ![p] = [Idle EXCEPT !.op = "delete", !.id = id, !.pc = "find"]]
    /\ UNCHANGED <<sweets, nextId, base, sold, added, log, http, clock, users, ureq, store, calls>>

\* deleteSweet: findUnique by id resolves, then the existence check.
DeleteFind(p) ==
    /\ req[p].pc = "find" /\ req[p].op = "delete"
    /\ LET s == sweets[req[p].id]
       IN  req' = [req EXCEPT ![p] =
                IF ~s.live THEN Finish(@, NotFoundMsg, FALSE)
                ELSE [@ EXCEPT !.pc = "write", !.sweet = s]]
    /\ UNCHANGED <<sweets, nextId, base, sold, added, log, http, clock, users, ureq, store, calls>>

\* deleteSweet: prisma.sweet.delete removes the row.
DeleteWrite(p) ==
    /\ req[p].pc = "write" /\ req[p].op = "delete"
    /\ LET id == req[p].id
       IN  IF ~sweets[id].live
           THEN /\ req' = [req EXCEPT ![p] = Finish(@, P2025, FALSE)]
                /\ UNCHANGED sweets
           ELSE /\ sweets' = [sweets EXCEPT ![id] = NoRow]
                /\ req' = [req EXCEPT ![p] = Finish(@, OK, TRUE)]
    /\ UNCHANGED <<nextId, base, sold, added, log, http, clock, users, ureq, store, calls>>

\* ------------------------------------------------- list and search steps
\* The characters of the strings the model uses.
Chars(s) ==
    CASE s = "Barfi" -> <<"B", "a", "r", "f", "i">>
      [] s = "Ladoo" -> <<"L", "a", "d", "o", "o">>
      [] s = "Mithai" -> <<"M", "i", "t", "h", "a", "i">>
      [] s = "Candy" -> <<"C", "a", "n", "d", "y">>
      [] s = "AR" -> <<"A", "R">>
      [] s = "a" -> <<"a">>
      [] s = "oo" -> <<"o", "o">>
      [] s = "MIT" -> <<"M", "I", "T">>
      [] s = "and" -> <<"a", "n", "d">>
      [] OTHER -> <<>>

\* Case folding of one character.
Lower(c) ==
    CASE c = "A" -> "a" [] c = "B" -> "b" [] c = "C" -> "c" [] c = "I" -> "i"
      [] c = "L" -> "l" [] c = "M" -> "m" [] c = "R" -> "r" [] c = "T" -> "t"
      [] OTHER -> c

Fold(cs) == [i \in 1..Len(cs) |-> Lower(cs[i])]

\* needle occurs in hay as a contiguous run of characters.
Occurs(needle, hay) ==
    \E i \in 0..(Len(hay) - Len(needle)) :
        \A j \in 1..Len(needle) : hay[i + j] = needle[j]

\* {contains: needle, mode: "insensitive"}
ContainsInsensitive(hay, needle) == Occurs(Fold(Chars(needle)), Fold(Chars(hay)))

\* Mutant of Matches: the lower price bound is exclusive.
MatchesExclusiveMin(row, w) ==
    /\ w.name => ContainsInsensitive(row.name, w.c.name)
    /\ w.category => ContainsInsensitive(row.category, w.c.category)
    /\ w.gte => row.price * 10 > Tenths(w.c.minPrice)
    /\ w.lte => row.price * 10 <= Tenths(w.c.maxPrice)

\* A row satisfies the where clause (all of its filters).
Matches(row, w) ==
    /\ w.name => ContainsInsensitive(row.name, w.c.name)
    /\ w.category => ContainsInsensitive(row.category, w.c.category)
    /\ w.gte => row.price * 10 >= Tenths(w.c.minPrice)
    /\ w.lte => row.price * 10 <= Tenths(w.c.maxPrice)

\* Position of an id in the table's storage order.
Slot(i) == IF i = CustomId THEN 0 ELSE CHOOSE k \in 1..Len(IdPool) : IdPool[k] = i

\* a comes before b in the result: newest first under {createdAt: "desc"} (rows
\* of one instant in storage order), storage order without an orderBy.
Before(a, b, orderBy) ==
    IF orderBy = "createdAt desc"
    THEN \/ sweets[a].createdAt > sweets[b].createdAt
         \/ sweets[a].createdAt = sweets[b].createdAt /\ Slot(a) < Slot(b)
    ELSE Slot(a) < Slot(b)

\* The ids of S as a sequence in that order.
Ordered(S, orderBy) ==
    CHOOSE s \in [1..Cardinality(S) -> S] :
        \A i, j \in 1..Cardinality(S) : i < j => Before(s[i], s[j], orderBy)

\* prisma.sweet.findMany({where, orderBy}): the rows read, in order.
FindMany(w, orderBy) ==
    LET S == {i \in Ids : sweets[i].live /\ Matches(sweets[i], w)}
        ids == Ordered(S, orderBy)
    IN  [k \in 1..Cardinality(S) |-> [id |-> ids[k], row |-> sweets[ids[k]]]]

\* getAllSweets is called: the query is issued.
ListCall(p) ==
    /\ Free(p)
    /\ req' = [req EXCEPT ![p] = [Idle EXCEPT !.op = "list", !.pc = "find"]]
    /\ UNCHANGED <<sweets, nextId, base, sold, added, log, http, clock, users, ureq, store, calls>>

\* getAllSweets: findMany resolves.
ListFind(p) ==
    /\ req[p].pc = "find" /\ req[p].op = "list"
    /\ req' = [req EXCEPT ![p] = Finish([@ EXCEPT !.rows = FindMany(NoWhere, "createdAt desc")], OK, FALSE)]
    /\ UNCHANGED <<sweets, nextId, base, sold, added, log, http, clock, users, ureq, store, calls>>

\* searchSweets is called: the where clause is built, the query is issued.
SearchCall(p, c) ==
    /\ Free(p)
    /\ req' = [req EXCEPT ![p] =
            [Idle EXCEPT !.op = "search", !.pc = "find", !.where = Where(c)]]
    /\ UNCHANGED <<sweets, nextId, base, sold, added, log, http, clock, users, ureq, store, calls>>

\* Mutant of SearchFind: the query has no orderBy.
SearchFindUnordered(p) ==
    /\ req[p].pc = "find" /\ req[p].op = "search"
    /\ req' = [req EXCEPT ![p] =
            Finish([@ EXCEPT !.rows = FindMany(req[p].where, "none")], OK, FALSE)]
    /\ UNCHANGED <<sweets, nextId, base, sold, added, log, http, clock, users, ureq, store, calls>>

\* searchSweets: findMany resolves.
SearchFind(p) ==
    /\ req[p].pc = "find" /\ req[p].op = "search"
    /\ req' = [req EXCEPT ![p] =
            Finish([@ EXCEPT !.rows = FindMany(req[p].where, "createdAt desc")], OK, FALSE)]
    /\ UNCHANGED <<sweets, nextId, base, sold, added, log, http, clock, users, ureq, store, calls>>

\* getSweetById is called: the lookup by id is issued.
GetCall(p, id) ==
    /\ Free(p)
    /\ req' = [req EXCEPT ![p] = [Idle EXCEPT !.op = "get", !.id = id, !.pc = "find"]]
    /\ UNCHANGED <<sweets, nextId, base, sold, added, log, http, clock, users, ureq, store, calls>>

\* getSweetById: findUnique resolves, then the existence check.
GetFind(p) ==
    /\ req[p].pc = "find" /\ req[p].op = "get"
    /\ LET s == sweets[req[p].id]
       IN  req' = [req EXCEPT ![p] =
                IF ~s.live THEN Finish(@, NotFoundMsg, FALSE)
                ELSE Finish([@ EXCEPT !.sweet = s], OK, FALSE)]
    /\ UNCHANGED <<sweets, nextId, base, sold, added, log, http, clock, users, ureq, store, calls>>

\* ------------------------------------------- concurrent ledger requests
\* Quantities a caller may pass to the service: -1, 0, 0.5, 1, 2.
QtyInputs == {Num(-1, 0), Num(0, 0), Num(0, 5), Num(1, 0), Num(2, 0)}
\* Identifiers a caller may pass; "sweet-2" resolves to no Sweet in some tables.
IdInputs == {IdPool[1], IdPool[2]}

LedgerTables ==
    {t \in [Ids -> {NoRow} \cup {Row(n, 10, q) : n \in Names, q \in 0..MaxInitQty}] :
        /\ t[IdPool[1]].live /\ t[IdPool[1]].name = "Barfi"
        /\ t[IdPool[2]].live => t[IdPool[2]].name = "Ladoo"
        /\ ~t[IdPool[3]].live /\ ~t[CustomId].live}

LedgerInit ==
    /\ sweets \in LedgerTables
    /\ req = [p \in Procs |-> Idle]
    /\ nextId = Len(IdPool) + 1
    /\ base = [i \in Ids |-> sweets[i].quantity]
    /\ sold = [i \in Ids |-> 0]
    /\ added = [i \in Ids |-> 0]
    /\ log = <<>>
    /\ http = [p \in Procs |-> NoHttp]
    /\ clock = 0
    /\ users = NoUsers
    /\ ureq = [p \in Procs |-> UIdle]
    /\ store = EmptyStore
    /\ calls = [p \in Procs |-> NoCall]

LedgerNext ==
    \/ \E p \in Procs, id \in IdInputs, q \in QtyInputs : PurchaseCall(p, id, q)
    \/ \E p \in Procs : PurchaseFind(p)
    \/ \E p \in Procs : PurchaseUpdate(p)
    \/ \E p \in Procs, id \in IdInputs, q \in QtyInputs : RestockCall(p, id, q)
    \/ \E p \in Procs : RestockFind(p)
    \/ \E p \in Procs : RestockUpdate(p)

SpecLedger == LedgerInit /\ [][LedgerNext]_vars

\* ------------------------------------------------------- ledger claims
PositiveInteger(x) == x.frac = 0 /\ x.whole > 0
Settled == \A p \in Procs : req[p].pc \in {"idle", "done"}
LedgerOp(r) == r.op \in {"purchase", "restock"}
QtyMsg(r) == IF r.op = "purchase" THEN PurchaseQtyMsg ELSE RestockQtyMsg

\* C1: under every interleaving of purchase and restock requests the persisted
\* quantity of every Sweet is >= 0.
C1_QuantityNonNegative ==
    \A i \in Ids : sweets[i].live => sweets[i].quantity >= 0

\* C1 witness: a purchase and a restock of one Sweet interleaved (one overwrote
\* the other's adjustment) and the stock is still not negative.
C1_Witness ==
    \E i \in Ids :
        /\ sweets[i].live /\ sold[i] > 0 /\ added[i] > 0
        /\ sweets[i].quantity # base[i] + added[i] - sold[i]
        /\ Settled

\* C2 (as claimed): with no restock of the Sweet, the units taken by successful
\* purchases never exceed the stock available before them.
C2_NoOversell ==
    \A i \in Ids : (sweets[i].live /\ added[i] = 0) => sold[i] <= base[i]

\* C3 (as claimed): when every purchase and restock request has succeeded, the
\* quantity is the initial quantity plus the restocked minus the purchased units.
C3_NoLostAdjustment ==
    (Settled /\ \A p \in Procs : req[p].pc = "done" => req[p].result = OK)
        => \A i \in Ids : sweets[i].live =>
                sweets[i].quantity = base[i] + added[i] - sold[i]

\* C6: a quantity that is not a positive integer fails with the validation
\* message without a read, whatever the id; a positive integer quantity with an
\* id that resolves to no Sweet fails with NotFound; neither writes.
C6_ValidationThenNotFound ==
    /\ \A p \in Procs : LedgerOp(req[p]) =>
          /\ ~PositiveInteger(req[p].qty) =>
                /\ req[p].pc = "done" /\ req[p].result = QtyMsg(req[p])
                /\ ~req[p].wrote /\ req[p].sweet = NoRow
          /\ (PositiveInteger(req[p].qty) /\ ~sweets[req[p].id].live) =>
                /\ req[p].pc \in {"find", "done"}
                /\ req[p].pc = "done" => (req[p].result = NotFoundMsg /\ ~req[p].wrote)
    /\ (\A p \in Procs : req[p].result # OK) =>
          \A i \in Ids : sweets[i].quantity = base[i]

\* C6 witness: a request with an invalid quantity on an id that does not
\* resolve has failed on the quantity, and one with a valid quantity on it has
\* failed with NotFound.
C6_Witness ==
    \E p, r \in Procs :
        /\ req[p].pc = "done" /\ req[p].result = PurchaseQtyMsg
        /\ ~sweets[req[p].id].live
        /\ req[r].pc = "done" /\ req[r].result = NotFoundMsg /\ req[r].op = "restock"

\* C7: a purchase of more than the quantity read fails with InsufficientStock
\* and writes nothing; a purchase of exactly the quantity read goes on to the
\* write, succeeds, and the write leaves quantity 0.
C7_InsufficientOrExact ==
    [][\A p \in Procs : req[p].op = "purchase" =>
        LET i == req[p].id
            n == req[p].qty.whole
        IN  /\ (req[p].pc = "find" /\ req'[p].pc # "find" /\ sweets[i].live) =>
                  IF n > sweets[i].quantity
                  THEN /\ req'[p].pc = "done" /\ req'[p].result = InsufficientMsg
                       /\ ~req'[p].wrote /\ sweets' = sweets
                  ELSE req'[p].pc = "write" /\ sweets' = sweets
            /\ (req[p].pc = "write" /\ req'[p].pc = "done"
                    /\ n = req[p].sweet.quantity) =>
                  /\ req'[p].result = OK /\ sweets'[i].quantity = 0
      ]_vars

\* C7 witness: one purchase failed with InsufficientStock, another took the
\* whole stock it read and left 0.
C7_Witness ==
    \E p, r \in Procs :
        /\ req[p].op = "purchase" /\ req[p].pc = "done"
        /\ req[p].result = InsufficientMsg
        /\ req[r].op = "purchase" /\ req[r].pc = "done" /\ req[r].result = OK
        /\ req[r].qty.whole = req[r].sweet.quantity
        /\ sweets[req[r].id].quantity = 0

\* ------------------------------------------ concurrent catalog requests
CreateInputs == {Data(AllFields, n, 10, 5) : n \in Names}
UpdateInputs == {Data({"name"}, n, 0, 0) : n \in Names} \cup {Data({"quantity"}, "", 0, 1)}

EmptyTable == [i \in Ids |-> NoRow]
CatalogTables ==
    { EmptyTable,
      [EmptyTable EXCEPT ![IdPool[1]] = Row("Barfi", 10, 5)],
      [EmptyTable EXCEPT ![IdPool[1]] = Row("Barfi", 10, 5),
                         ![IdPool[2]] = Row("Ladoo", 10, 5)] }

CatalogInit ==
    /\ sweets \in CatalogTables
    /\ req = [p \in Procs |-> Idle]
    /\ nextId = Cardinality({i \in Ids : sweets[i].live}) + 1
    /\ base = [i \in Ids |-> sweets[i].quantity]
    /\ sold = [i \in Ids |-> 0]
    /\ added = [i \in Ids |-> 0]
    /\ log = <<>>
    /\ http = [p \in Procs |-> NoHttp]
    /\ clock = 0
    /\ users = NoUsers
    /\ ureq = [p \in Procs |-> UIdle]
    /\ store = EmptyStore
    /\ calls = [p \in Procs |-> NoCall]

CatalogNext ==
    \/ \E p \in Procs, d \in CreateInputs : CreateCall(p, d)
    \/ \E p \in Procs : CreateFind(p)
    \/ \E p \in Procs : CreateWrite(p)
    \/ \E p \in Procs, id \in IdInputs, d \in UpdateInputs : UpdateCall(p, id, d)
    \/ \E p \in Procs : UpdateFind(p)
    \/ \E p \in Procs : UpdateFindName(p)
    \/ \E p \in Procs : UpdateWrite(p)
    \/ \E p \in Procs, id \in IdInputs : DeleteCall(p, id)
    \/ \E p \in Procs : DeleteFind(p)
    \/ \E p \in Procs : DeleteWrite(p)

SpecCatalog == CatalogInit /\ [][CatalogNext]_vars

\* ------------------------------------------------------ catalog claims
\* C8: under every interleaving of create, update and delete requests no two
\* live Sweets have the same name.
C8_NamesUnique ==
    \A i, j \in Ids :
        (i # j /\ sweets[i].live /\ sweets[j].live) => sweets[i].name # sweets[j].name

\* C8 witness: two Sweets are live and a request whose own name check had passed
\* was refused at its write (the requests raced).
C8_Witness ==
    /\ Cardinality({i \in Ids : sweets[i].live}) >= 2
    /\ \E p \in Procs : req[p].pc = "done" /\ req[p].result = P2002

\* C9: when the name lookup of a create finds a live Sweet with the name, or
\* the lookup of a renaming update finds another live Sweet with it, the request
\* fails with 'Sweet with this name already exists' and the table is unchanged;
\* an update to a name held by another Sweet always runs that lookup.
C9_ConflictNoWrite ==
    [][\A p \in Procs :
        LET r == req[p]
            held == NameHolders(r.data.name, r.id) # {}
            refused == /\ req'[p].pc = "done" /\ req'[p].result = NameExistsMsg
                       /\ ~req'[p].wrote /\ sweets' = sweets
        IN  /\ (r.op = "create" /\ r.pc = "find" /\ req'[p].pc # "find" /\ held)
                  => refused
            /\ (r.op = "update" /\ r.pc = "find" /\ req'[p].pc # "find"
                    /\ sweets[r.id].live /\ "name" \in r.data.fields /\ held)
                  => (req'[p].pc = "findName" /\ sweets' = sweets)
            /\ (r.op = "update" /\ r.pc = "findName" /\ req'[p].pc # "findName" /\ held)
                  => refused
      ]_vars

\* C9 witness: a create and a renaming update have both failed with Conflict
\* and the names they asked for are still held by other Sweets.
C9_Witness ==
    \E p, r \in Procs :
        /\ req[p].op = "create" /\ req[p].pc = "done" /\ req[p].result = NameExistsMsg
        /\ req[r].op = "update" /\ req[r].pc = "done" /\ req[r].result = NameExistsMsg
        /\ NameHolders(req[r].data.name, req[r].id) # {}
        /\ NameHolders(req[p].data.name, "") # {}

\* C10 (as claimed): of two requests that write the same name (creates, or
\* renames of a live Sweet), when one has persisted it the other, if it fails,
\* fails with Conflict, whatever the interleaving of their checks and writes.
WritesName(r) ==
    /\ r.pc = "done"
    /\ \/ r.op = "create"
       \/ r.op = "update" /\ "name" \in r.data.fields /\ r.result \notin {NotFoundMsg, P2025}

C10_LoserGetsConflict ==
    \A p, r \in Procs :
        (/\ p # r /\ WritesName(req[p]) /\ WritesName(req[r])
         /\ req[p].data.name = req[r].data.name
         /\ req[p].result = OK /\ req[r].result # OK)
            => req[r].result = NameExistsMsg

\* ------------------------------------------------ one sequential client
\* The controller answers and the client issues its next request.
SeqRespond ==
    /\ req[1].pc = "done"
    /\ log' = Append(log, [op |-> req[1].op, id |-> req[1].id, qty |-> req[1].qty,
                           data |-> req[1].data, result |-> req[1].result,
                           table |-> sweets])
    /\ req' = [req EXCEPT ![1] = Idle]
    /\ UNCHANGED <<sweets, nextId, base, sold, added, http, clock, users, ureq, store, calls>>

SeqQtyInputs == {Num(1, 0), Num(5, 0), Num(10, 0)}
SeqIdInputs == {IdPool[1]}
SeqCreateInputs == {Data(AllFields, "Barfi", 10, 5)}
SeqMore == Len(log) < MaxSeqReqs

SeqInit ==
    /\ sweets = EmptyTable
    /\ req = [p \in Procs |-> Idle]
    /\ nextId = 1
    /\ base = [i \in Ids |-> 0]
    /\ sold = [i \in Ids |-> 0]
    /\ added = [i \in Ids |-> 0]
    /\ log = <<>>
    /\ http = [p \in Procs |-> NoHttp]
    /\ clock = 0
    /\ users = NoUsers
    /\ ureq = [p \in Procs |-> UIdle]
    /\ store = EmptyStore
    /\ calls = [p \in Procs |-> NoCall]

SeqNext ==
    \/ \E d \in SeqCreateInputs : SeqMore /\ CreateCall(1, d)
    \/ CreateFind(1)
    \/ CreateWrite(1)
    \/ \E id \in SeqIdInputs, q \in SeqQtyInputs : SeqMore /\ PurchaseCall(1, id, q)
    \/ PurchaseFind(1)
    \/ PurchaseUpdate(1)
    \/ \E id \in SeqIdInputs, q \in SeqQtyInputs : SeqMore /\ RestockCall(1, id, q)
    \/ RestockFind(1)
    \/ RestockUpdate(1)
    \/ SeqRespond

SpecSeq == SeqInit /\ [][SeqNext]_vars

\* --------------------------------------------------- sequential claims
TableBefore(k) == IF k = 1 THEN EmptyTable ELSE log[k - 1].table

\* C4: restock(id, n) immediately followed by purchase(id, n) on an existing
\* Sweet, n a positive integer: both succeed and the quantity is what it was
\* before the restock.
C4_RoundTrip ==
    \A k \in 1..(Len(log) - 1) :
        LET a == log[k]
            b == log[k + 1]
        IN  (/\ a.op = "restock" /\ b.op = "purchase"
             /\ a.id = b.id /\ a.qty = b.qty /\ PositiveInteger(a.qty)
             /\ TableBefore(k)[a.id].live)
                => /\ a.result = OK /\ b.result = OK
                   /\ b.table[a.id].live
                   /\ b.table[a.id].quantity = TableBefore(k)[a.id].quantity

\* C4 witness: a restock of 10 followed by a purchase of 10 has completed on a
\* Sweet that held 5 units.
C4_Witness ==
    \E k \in 2..(Len(log) - 1) :
        /\ log[k].op = "restock" /\ log[k + 1].op = "purchase"
        /\ log[k].id = log[k + 1].id
        /\ log[k].qty = Num(10, 0) /\ log[k + 1].qty = Num(10, 0)
        /\ TableBefore(k)[log[k].id].live
        /\ TableBefore(k)[log[k].id].quantity = 5

\* The end-to-end scenario of the specification and what each step must yield.
Scenario ==
    << [op |-> "create", id |-> IdPool[1], qty |-> Num(0, 0), data |-> Data(AllFields, "Barfi", 10, 5)],
       [op |-> "purchase", id |-> IdPool[1], qty |-> Num(5, 0), data |-> NoData],
       [op |-> "purchase", id |-> IdPool[1], qty |-> Num(1, 0), data |-> NoData],
       [op |-> "restock", id |-> IdPool[1], qty |-> Num(10, 0), data |-> NoData],
       [op |-> "purchase", id |-> IdPool[1], qty |-> Num(1, 0), data |-> NoData] >>
Expected ==
    << [result |-> OK, quantity |-> 5],
       [result |-> OK, quantity |-> 0],
       [result |-> InsufficientMsg, quantity |-> 0],
       [result |-> OK, quantity |-> 10],
       [result |-> OK, quantity |-> 9] >>
Follows(k) ==
    /\ k <= Len(log) /\ k <= Len(Scenario)
    /\ \A j \in 1..k :
        /\ log[j].op = Scenario[j].op /\ log[j].id = Scenario[j].id
        /\ log[j].qty = Scenario[j].qty /\ log[j].data = Scenario[j].data

\* C5: create Barfi {price 10, quantity 5}; purchase 5; purchase 1; restock 10;
\* purchase 1 yields success (5), success (0), InsufficientStock (0), success
\* (10), success, and the final persisted quantity is 9.
C5_Scenario ==
    \A k \in 1..Len(log) :
        Follows(k) => /\ log[k].result = Expected[k].result
                      /\ log[k].table[IdPool[1]] = Row("Barfi", 10, Expected[k].quantity)

\* C5 witness: the client has run the whole scenario.
C5_Witness == Follows(5)

\* ------------------------------------------------------- HTTP requests
\* The number of requests the client sends.
MaxHttpReqs == 2

\* The quantity a ledger controller hands to the service: req.body.quantity as
\* it came (the coerced value of validate() is not kept).
Raw(v) == IF v.t = "num" THEN v.n ELSE NotANumber

\* The columns a payload may write and the type each column takes.
DataColumns == {"name", "category", "price", "quantity", "description", "id"}
WellTyped(k, v) ==
    CASE k = "price" -> v.t = "num"
      [] k = "quantity" -> v.t = "num" /\ NumberIsInteger(v.n)
      [] OTHER -> v.t = "str"

\* The payload a catalog controller hands to the service: req.body as it came.
ToData(b) ==
    [fields |-> Keys(b) \cap DataColumns,
     name |-> b.name.s, category |-> b.category.s, price |-> b.price.n.whole,
     quantity |-> b.quantity.n.whole, description |-> b.description.s, id |-> b.id.s,
     bad |-> \E k \in Keys(b) \cap DataColumns : ~WellTyped(k, b[k])]

\* SearchSweetSchema.parse(req.query): the criteria with the prices coerced.
ToCriteria(b) ==
    [fields |-> Keys(b) \cap {"name", "category", "minPrice", "maxPrice"},
     name |-> b.name.s, category |-> b.category.s,
     minPrice |-> Coerce(b.minPrice), maxPrice |-> Coerce(b.maxPrice)]

\* What the ledger controllers say of an error they do not know.
PurchaseFailedMsg == "Unable to process purchase request"
RestockFailedMsg == "Unable to process restock request"

\* The status and error body each controller answers a service outcome with.
Response(route, result) ==
    CASE route = "create" ->
            IF result = OK THEN Reject(201, "") ELSE Reject(400, result)
      [] route \in {"list", "search"} ->
            IF result = OK THEN Reject(200, "") ELSE Reject(500, result)
      [] route = "update" ->
            IF result = OK THEN Reject(200, "")
            ELSE IF result = NotFoundMsg THEN Reject(404, result)
            ELSE Reject(400, result)
      [] route = "delete" ->
            IF result = OK THEN Reject(200, "")
            ELSE IF result = NotFoundMsg THEN Reject(404, result)
            ELSE Reject(500, result)
      [] route = "purchase" ->
            IF result = OK THEN Reject(200, "")
            ELSE IF result = NotFoundMsg THEN Reject(404, result)
            ELSE IF result \in {InsufficientMsg, PurchaseQtyMsg} THEN Reject(400, result)
            ELSE Reject(500, PurchaseFailedMsg)
      [] route = "restock" ->
            IF result = OK THEN Reject(200, "")
            ELSE IF result = NotFoundMsg THEN Reject(404, result)
            ELSE IF result = RestockQtyMsg THEN Reject(400, result)
            ELSE Reject(500, RestockFailedMsg)

\* A request arrives and runs its route's middleware up to the controller or to
\* the middleware that answers it.
HttpReceive(p, h) ==
    /\ http[p].stage = "none" /\ req[p].pc = "idle"
    /\ http[p].n < MaxHttpReqs
    /\ h.route = "create" => nextId <= Len(IdPool)
    /\ http' = [http EXCEPT ![p] =
            RunFrom([NoHttp EXCEPT !.route = h.route, !.cred = h.cred, !.id = h.id,
                                   !.body = h.body, !.n = http[p].n + 1], 1)]
    /\ UNCHANGED <<sweets, req, nextId, base, sold, added, log, clock, users, ureq, store, calls>>

AtController(p, route) == http[p].stage = "controller" /\ http[p].route = route

\* The controllers: each calls its service method with what the request holds.
HttpCreate(p) == AtController(p, "create") /\ CreateCall(p, ToData(http[p].body))
HttpList(p) == AtController(p, "list") /\ ListCall(p)
HttpSearch(p) ==
    /\ AtController(p, "search")
    /\ IF SearchSweetSchema(http[p].body)
       THEN SearchCall(p, ToCriteria(http[p].body))
       ELSE /\ req' = [req EXCEPT ![p] = Finish([Idle EXCEPT !.op = "search"],
                                                ValidationFailedMsg, FALSE)]
            /\ UNCHANGED <<sweets, nextId, base, sold, added, log, http, clock, users, ureq, store, calls>>
HttpUpdate(p) ==
    AtController(p, "update") /\ UpdateCall(p, http[p].id, ToData(http[p].body))
HttpDelete(p) == AtController(p, "delete") /\ DeleteCall(p, http[p].id)
HttpPurchase(p) ==
    AtController(p, "purchase") /\ PurchaseCall(p, http[p].id, Raw(http[p].body.quantity))
HttpRestock(p) ==
    AtController(p, "restock") /\ RestockCall(p, http[p].id, Raw(http[p].body.quantity))

\* The service call settles and the controller answers.
HttpRespond(p) ==
    /\ http[p].stage = "controller" /\ req[p].pc = "done"
    /\ LET o == Response(http[p].route, req[p].result)
       IN  http' = [http EXCEPT ![p] =
                [@ EXCEPT !.stage = "responded", !.status = o.status,
                          !.error = o.error, !.result = req[p].result]]
    /\ req' = [req EXCEPT ![p] = Idle]
    /\ UNCHANGED <<sweets, nextId, base, sold, added, log, clock, users, ureq, store, calls>>

\* The exchange is over: the connection takes the next request.
HttpDone(p) ==
    /\ http[p].stage = "responded"
    /\ http' = [http EXCEPT ![p] = [NoHttp EXCEPT !.n = http[p].n]]
    /\ UNCHANGED <<sweets, req, nextId, base, sold, added, log, clock, users, ureq, store, calls>>

\* The latest instant the database server's clock reaches.
MaxClock == 1

\* Time passes on the database server.
Tick ==
    /\ clock < MaxClock
    /\ clock' = clock + 1
    /\ UNCHANGED <<sweets, req, nextId, base, sold, added, log, http, users, ureq, store, calls>>

\* ----------------------------------------------- one client over HTTP
Creds == {"none", "invalid", "user", "admin"}
HttpIds == {IdPool[1], IdPool[2]}

Body(n, c, pr, q) == [NoBody EXCEPT !.name = n, !.category = c, !.price = pr, !.quantity = q]

CreateBodies ==
    { Body(JStr("Ladoo"), JStr("Mithai"), JNum(20, 0), JNum(1, 0)),
      Body(JStr(""), JStr("Mithai"), JNum(20, 0), JNum(1, 0)),
      Body(JStr("Ladoo"), JStr(""), JNum(20, 0), JNum(1, 0)),
      Body(JStr("Ladoo"), JStr("Mithai"), JNum(0, 0), JNum(1, 0)),
      Body(JStr("Ladoo"), JStr("Mithai"), JNum(-1, 0), JNum(1, 0)),
      Body(JStr("Ladoo"), JStr("Mithai"), JNum(20, 0), JNum(-1, 0)),
      Body(JStr("Ladoo"), JStr("Mithai"), JNum(20, 0), JNum(0, 5)),
      NoBody }

UpdateBodies ==
    { NoBody,
      [NoBody EXCEPT !.name = JStr("Ladoo")],
      [NoBody EXCEPT !.name = JStr("")],
      [NoBody EXCEPT !.category = JStr("")],
      [NoBody EXCEPT !.category = JStr("Candy"), !.price = JNum(20, 0)],
      [NoBody EXCEPT !.price = JNum(0, 0)],
      [NoBody EXCEPT !.price = JStr("-5")],
      [NoBody EXCEPT !.price = JStr("20")],
      [NoBody EXCEPT !.quantity = JNum(1, 0)],
      [NoBody EXCEPT !.quantity = JNum(-1, 0)],
      [NoBody EXCEPT !.quantity = JNum(0, 5)],
      [NoBody EXCEPT !.id = JStr(CustomId)] }

QuantityBodies ==
    { [NoBody EXCEPT !.quantity = v] : v \in {JNum(1, 0), JNum(0, 0), JNum(0, 5), JStr("1")} }
        \cup {NoBody}

Queries ==
    { NoBody,
      [NoBody EXCEPT !.name = JStr("AR")],
      [NoBody EXCEPT !.minPrice = JStr("20"), !.maxPrice = JStr("40")],
      [NoBody EXCEPT !.minPrice = JStr("40"), !.maxPrice = JStr("20")],
      [NoBody EXCEPT !.minPrice = JStr("20"), !.maxPrice = JStr("20")],
      [NoBody EXCEPT !.minPrice = JStr("0")],
      [NoBody EXCEPT !.maxPrice = JStr("-5")] }

Request(r, c, i, b) == [route |-> r, cred |-> c, id |-> i, body |-> b]

HttpInputs ==
    {Request("create", c, "", b) : c \in Creds, b \in CreateBodies}
    \cup {Request("list", c, "", NoBody) : c \in Creds}
    \cup {Request("search", c, "", b) : c \in Creds, b \in Queries}
    \cup {Request("update", c, i, b) : c \in Creds, i \in HttpIds, b \in UpdateBodies}
    \cup {Request("delete", c, i, NoBody) : c \in Creds, i \in HttpIds}
    \cup {Request(r, c, i, b) : r \in {"purchase", "restock"}, c \in Creds,
                                i \in HttpIds, b \in QuantityBodies}

HttpInit ==
    /\ sweets = [EmptyTable EXCEPT ![IdPool[1]] = Row("Barfi", 10, 2)]
    /\ req = [p \in Procs |-> Idle]
    /\ nextId = 2
    /\ base = [i \in Ids |-> sweets[i].quantity]
    /\ sold = [i \in Ids |-> 0]
    /\ added = [i \in Ids |-> 0]
    /\ log = <<>>
    /\ http = [p \in Procs |-> NoHttp]
    /\ clock = 0
    /\ users = NoUsers
    /\ ureq = [p \in Procs |-> UIdle]
    /\ store = EmptyStore
    /\ calls = [p \in Procs |-> NoCall]

HttpNext ==
    \/ \E h \in HttpInputs : HttpReceive(1, h)
    \/ HttpCreate(1) \/ CreateFind(1) \/ CreateWrite(1)
    \/ HttpList(1) \/ ListFind(1)
    \/ HttpSearch(1) \/ SearchFind(1)
    \/ HttpUpdate(1) \/ UpdateFind(1) \/ UpdateFindName(1) \/ UpdateWrite(1)
    \/ HttpDelete(1) \/ DeleteFind(1) \/ DeleteWrite(1)
    \/ HttpPurchase(1) \/ PurchaseFind(1) \/ PurchaseUpdate(1)
    \/ HttpRestock(1) \/ RestockFind(1) \/ RestockUpdate(1)
    \/ HttpRespond(1)
    \/ HttpDone(1)
    \/ Tick

SpecHttp == HttpInit /\ [][HttpNext]_vars

\* --------------------------------------------------- pipeline claims
Answered(p) == http[p].stage = "responded"
\* The request never got to a service method: no read, no write of the table.
NoServiceCall(p) == req[p] = Idle /\ http[p].result = "none"

C12_NonAdminForbidden ==
    \A p \in Procs :
        (Answered(p) /\ http[p].route \in {"delete", "restock"}) =>
            /\ http[p].cred = "user" => (http[p].status = 403 /\ NoServiceCall(p))
            /\ http[p].cred = "admin" => http[p].status # 403

\* The place of each stage in the order the specification gives.
Rank(m) ==
    CASE m = "authenticate" -> 1
      [] m = "requireAdmin" -> 2
      [] m = "validate" -> 3

\* C13 (as claimed): every request passes the Identity Gate, then the Role
\* Policy, then Validation: no stage runs after a later one.
C13_PipelineOrder ==
    \A p \in Procs :
        \A i, j \in 1..Len(http[p].ran) :
            i < j => Rank(http[p].ran[i]) < Rank(http[p].ran[j])

\* A payload that breaks one of the rules the claim lists.
EmptyText(v) == v.t = "str" /\ v.s = ""
BreaksRule(b) ==
    \/ EmptyText(b.name) \/ EmptyText(b.category)
    \/ b.price.t = "num" /\ LeqZero(b.price.n)
    \/ b.quantity.t = "num" /\ (b.quantity.n.whole < 0 \/ b.quantity.n.frac # 0)

\* C14: a create or update request of an authenticated caller whose payload has
\* an empty name or category, a price <= 0 or a negative or non-integer
\* quantity is answered 400 and no service method is called.
C14_InvalidPayload400 ==
    \A p \in Procs :
        (/\ http[p].stage # "none" /\ http[p].route \in {"create", "update"}
         /\ http[p].cred \in {"user", "admin"} /\ BreaksRule(http[p].body)) =>
            /\ Answered(p) /\ http[p].status = 400
            /\ http[p].error = ValidationFailedMsg
            /\ NoServiceCall(p)

\* C14 witness: a create with price 0 and an update with quantity 0.5 are the
\* kind of request in question; one of them has been answered 400.
C14_Witness ==
    \E p \in Procs :
        /\ Answered(p) /\ http[p].cred = "user" /\ http[p].status = 400
        /\ \/ http[p].route = "create" /\ http[p].body.price = JNum(0, 0)
           \/ http[p].route = "update" /\ http[p].body.quantity = JNum(0, 5)

\* C15 (as claimed): an update, purchase or restock that succeeds leaves the
\* Sweet under the id it had, whatever fields the payload carries.
C15_IdFixed ==
    [][\A p \in Procs :
        (/\ req[p].op \in {"update", "purchase", "restock"}
         /\ req[p].pc = "write" /\ req'[p].pc = "done" /\ req'[p].result = OK)
            => sweets'[req[p].id].live]_vars

\* C16: every persisted Sweet has a price > 0 and a non-empty name and category.
C16_RowsWellFormed ==
    \A i \in Ids :
        sweets[i].live =>
            sweets[i].price > 0 /\ sweets[i].name # "" /\ sweets[i].category # ""

\* C16 witness: a create and an update of the price have both been written.
C16_Witness ==
    /\ \E i \in Ids : sweets[i].live /\ sweets[i].name = "Ladoo"
    /\ \E i \in Ids : sweets[i].live /\ sweets[i].name = "Barfi" /\ sweets[i].price = 20

Columns == {"name", "category", "price", "quantity", "description"}

\* C17: an update that succeeds sets the columns its partial supplies to the
\* supplied values and leaves every other column of the Sweet (updatedAt
\* aside) and every other Sweet as they were; an empty partial changes none.
C17_UpdateFrame ==
    [][\A p \in Procs :
        (/\ req[p].op = "update" /\ req[p].pc = "write"
         /\ req'[p].pc = "done" /\ req'[p].result = OK
         /\ req[p].data.fields \subseteq Columns) =>
            LET id == req[p].id
                d == req[p].data
            IN  /\ sweets'[id].live
                /\ \A f \in Columns :
                        sweets'[id][f] = IF f \in d.fields THEN d[f] ELSE sweets[id][f]
                /\ sweets'[id].createdAt = sweets[id].createdAt
                /\ \A j \in Ids \ {id} : sweets'[j] = sweets[j]]_vars

\* C17 witness: an update of category and price has been answered 200 and the
\* Sweet still has its name and quantity, and a later updatedAt.
C17_Witness ==
    \E p \in Procs :
        /\ Answered(p) /\ http[p].route = "update" /\ http[p].status = 200
        /\ Keys(http[p].body) = {"category", "price"}
        /\ sweets[http[p].id].name = "Barfi" /\ sweets[http[p].id].quantity = 2
        /\ sweets[http[p].id].category = "Candy" /\ sweets[http[p].id].price = 20
        /\ sweets[http[p].id].updatedAt > sweets[http[p].id].createdAt

\* ------------------------------------- requests concurrent with a delete
DeletionUpdates == {Data({"name"}, "Ladoo", 0, 0), Data({"price"}, "", 20, 0)}

DeletionInit ==
    /\ sweets = [EmptyTable EXCEPT ![IdPool[1]] = Row("Barfi", 10, 2)]
    /\ req = [p \in Procs |-> Idle]
    /\ nextId = 2
    /\ base = [i \in Ids |-> sweets[i].quantity]
    /\ sold = [i \in Ids |-> 0]
    /\ added = [i \in Ids |-> 0]
    /\ log = <<>>
    /\ http = [p \in Procs |-> NoHttp]
    /\ clock = 0
    /\ users = NoUsers
    /\ ureq = [p \in Procs |-> UIdle]
    /\ store = EmptyStore
    /\ calls = [p \in Procs |-> NoCall]

DeletionNext ==
    \/ \E p \in Procs : DeleteCall(p, IdPool[1])
    \/ \E p \in Procs : DeleteFind(p)
    \/ \E p \in Procs : DeleteWrite(p)
    \/ \E p \in Procs : GetCall(p, IdPool[1])
    \/ \E p \in Procs : GetFind(p)
    \/ \E p \in Procs, d \in DeletionUpdates : UpdateCall(p, IdPool[1], d)
    \/ \E p \in Procs : UpdateFind(p)
    \/ \E p \in Procs : UpdateFindName(p)
    \/ \E p \in Procs : UpdateWrite(p)
    \/ \E p \in Procs : PurchaseCall(p, IdPool[1], Num(1, 0))
    \/ \E p \in Procs : PurchaseFind(p)
    \/ \E p \in Procs : PurchaseUpdate(p)
    \/ \E p \in Procs : RestockCall(p, IdPool[1], Num(1, 0))
    \/ \E p \in Procs : RestockFind(p)
    \/ \E p \in Procs : RestockUpdate(p)

SpecDeletion == DeletionInit /\ [][DeletionNext]_vars

\* C18 (as claimed): once the delete of a Sweet has committed, every getById,
\* update, delete, purchase and restock of that id that finishes afterwards,
\* those that read the Sweet before the delete included, fails with NotFound
\* and writes nothing.
C18_DeletedIsGone ==
    [][\A p \in Procs :
        (/\ req[p].pc \notin {"idle", "done"} /\ req'[p].pc = "done"
         /\ ~sweets[req[p].id].live) =>
            (req'[p].result = NotFoundMsg /\ sweets' = sweets)]_vars

\* ------------------------------------------------- list and search calls
Categories == {"Mithai", "Candy"}
Prices == {50, 70}

\* A Sweet created (and last written) at instant t.
SweetAt(n, c, pr, t) ==
    [Row(n, pr, 1) EXCEPT !.category = c, !.createdAt = t, !.updatedAt = t]

\* Tables of one or two Sweets; the later id may hold the older Sweet.
SearchTables ==
    {t \in [Ids -> {NoRow} \cup {SweetAt(n, c, pr, at) :
                        n \in Names, c \in Categories, pr \in Prices, at \in 0..MaxClock}] :
        /\ t[IdPool[1]].live /\ t[IdPool[1]].name = "Barfi"
        /\ t[IdPool[2]].live => t[IdPool[2]].name = "Ladoo"
        /\ ~t[IdPool[3]].live /\ ~t[CustomId].live}

\* Criteria over every subset of the four fields; a field not supplied holds
\* its first value.
SearchInputs ==
    {c \in {Criteria(fs, n, ca, Num(lo, 0), Num(hi, 0)) :
                fs \in SUBSET {"name", "category", "minPrice", "maxPrice"},
                n \in {"", "AR", "oo"}, ca \in {"", "MIT", "and"},
                lo \in {40, 50}, hi \in {60, 70}} :
        /\ "name" \notin c.fields => c.name = ""
        /\ "category" \notin c.fields => c.category = ""
        /\ "minPrice" \notin c.fields => c.minPrice = Num(40, 0)
        /\ "maxPrice" \notin c.fields => c.maxPrice = Num(60, 0)}

\* The caller has its result; the slot takes the next call.
Return(p) ==
    /\ req[p].pc = "done"
    /\ req' = [req EXCEPT ![p] = Idle]
    /\ UNCHANGED <<sweets, nextId, base, sold, added, log, http, clock, users, ureq, store, calls>>

SearchInit ==
    /\ sweets \in SearchTables
    /\ req = [p \in Procs |-> Idle]
    /\ nextId = Len(IdPool) + 1
    /\ base = [i \in Ids |-> sweets[i].quantity]
    /\ sold = [i \in Ids |-> 0]
    /\ added = [i \in Ids |-> 0]
    /\ log = <<>>
    /\ http = [p \in Procs |-> NoHttp]
    /\ clock = MaxClock
    /\ users = NoUsers
    /\ ureq = [p \in Procs |-> UIdle]
    /\ store = EmptyStore
    /\ calls = [p \in Procs |-> NoCall]

\* One caller lists the catalog, a second one searches it again and again.
SearchNext ==
    \/ ListCall(1)
    \/ ListFind(1)
    \/ \E c \in SearchInputs : SearchCall(2, c)
    \/ SearchFind(2)
    \/ Return(2)

SpecSearch == SearchInit /\ [][SearchNext]_vars

\* ------------------------------------------------------- search claims
SearchDone(p) == req[p].op = "search" /\ req[p].pc = "done"
Returned(p) == {req[p].rows[k].id : k \in 1..Len(req[p].rows)}

\* A Sweet satisfies every criterion the caller supplied.
Satisfies(row, c) ==
    /\ "name" \in c.fields => ContainsInsensitive(row.name, c.name)
    /\ "category" \in c.fields => ContainsInsensitive(row.category, c.category)
    /\ "minPrice" \in c.fields => row.price * 10 >= Tenths(c.minPrice)
    /\ "maxPrice" \in c.fields => row.price * 10 <= Tenths(c.maxPrice)

\* C19: a search returns exactly the live Sweets that satisfy all the supplied
\* criteria: name and category by case-insensitive containment, price within
\* minPrice and maxPrice, both inclusive; each such Sweet once, as it is stored.
C19_SearchExact ==
    \A p \in Procs :
        SearchDone(p) =>
            /\ Returned(p) = {i \in Ids : sweets[i].live /\ Satisfies(sweets[i], req[p].where.c)}
            /\ Len(req[p].rows) = Cardinality(Returned(p))
            /\ \A k \in 1..Len(req[p].rows) : req[p].rows[k].row = sweets[req[p].rows[k].id]

\* C19 witness: of two Sweets priced 50 and 70, the search with minPrice 40 and
\* maxPrice 60 has returned the one priced 50 only.
C19_Witness ==
    /\ sweets[IdPool[1]].price = 50 /\ sweets[IdPool[2]].live /\ sweets[IdPool[2]].price = 70
    /\ SearchDone(2)
    /\ req[2].where.c = Criteria({"minPrice", "maxPrice"}, "", "", Num(40, 0), Num(60, 0))
    /\ Returned(2) = {IdPool[1]}

\* No criterion, or only name and category as empty strings.
Unfiltered(c) ==
    /\ c.fields \subseteq {"name", "category"}
    /\ "name" \in c.fields => c.name = ""
    /\ "category" \in c.fields => c.category = ""

\* C20: a search with no criteria (name and category absent or empty) returns
\* the Sweets list() returns, in the same order: newest first.
C20_SearchAllIsList ==
    (/\ req[1].op = "list" /\ req[1].pc = "done"
     /\ SearchDone(2) /\ Unfiltered(req[2].where.c)) =>
        req[2].rows = req[1].rows

\* C20 witness: the later id holds the newer Sweet, and a search with an empty
\* name has returned both Sweets, the newer one first, as list() did.
C20_Witness ==
    /\ sweets[IdPool[2]].live /\ sweets[IdPool[2]].createdAt > sweets[IdPool[1]].createdAt
    /\ req[1].op = "list" /\ req[1].pc = "done"
    /\ SearchDone(2) /\ req[2].where.c.fields = {"name"} /\ req[2].where.c.name = ""
    /\ Len(req[2].rows) = 2 /\ req[2].rows[1].id = IdPool[2]

\* ------------------------------------------------------ boundary claims
Authenticated(p) == http[p].stage # "none" /\ http[p].cred \in {"user", "admin"}
Supplied(v) == v.t # "absent"
\* The number a query parameter stands for.
Price(v) == Tenths(Coerce(v))

\* C21: a search whose minPrice exceeds its maxPrice, or whose minPrice or
\* maxPrice is not positive, is answered 400 and no catalog query is issued;
\* a search with positive minPrice <= maxPrice (equal ones included) is not
\* refused: it is answered 200.
C21_SearchRange ==
    \A p \in Procs :
        (Authenticated(p) /\ http[p].route = "search") =>
            LET lo == http[p].body.minPrice
                hi == http[p].body.maxPrice
            IN  /\ (\/ Supplied(lo) /\ Supplied(hi) /\ Price(lo) > Price(hi)
                    \/ Supplied(lo) /\ Price(lo) <= 0
                    \/ Supplied(hi) /\ Price(hi) <= 0) =>
                        /\ Answered(p) /\ http[p].status = 400
                        /\ http[p].error = ValidationFailedMsg
                        /\ NoServiceCall(p)
                /\ (/\ Supplied(lo) /\ Supplied(hi)
                    /\ 0 < Price(lo) /\ Price(lo) <= Price(hi)
                    /\ Answered(p)) => http[p].status = 200

\* C21 witness: a search with minPrice = maxPrice = 20 has been answered 200.
C21_Witness ==
    \E p \in Procs :
        /\ Answered(p) /\ http[p].route = "search" /\ http[p].status = 200
        /\ http[p].body.minPrice = JStr("20") /\ http[p].body.maxPrice = JStr("20")

\* ------------------------------------------- requests during an outage
\* A Prisma call that is awaited rejects: the database is unreachable.
StorageFails(p) ==
    /\ req[p].pc \in {"find", "findName", "write"}
    /\ req' = [req EXCEPT ![p] = Finish(@, P1001, FALSE)]
    /\ UNCHANGED <<sweets, nextId, base, sold, added, log, http, clock, users, ureq, store, calls>>

OutageNext ==
    \/ HttpNext
    \/ StorageFails(1)

SpecOutage == HttpInit /\ [][OutageNext]_vars

\* The kind of failure behind an answer ("none": success, or an error of the
\* storage client that is no outage).
Kind(h) ==
    IF h.result = "none"
    THEN CASE h.ran[Len(h.ran)] = "authenticate" -> "Unauthenticated"
           [] h.ran[Len(h.ran)] = "requireAdmin" -> "Forbidden"
           [] h.ran[Len(h.ran)] = "validate" -> "ValidationFailed"
    ELSE CASE h.result = NotFoundMsg -> "NotFound"
           [] h.result = NameExistsMsg -> "Conflict"
           [] h.result = InsufficientMsg -> "InsufficientStock"
           [] h.result \in {PurchaseQtyMsg, RestockQtyMsg, ValidationFailedMsg} ->
                "ValidationFailed"
           [] h.result = P1001 -> "Transient"
           [] OTHER -> "none"

\* The status the specification gives each kind.
StatusOf(kind) ==
    CASE kind = "Unauthenticated" -> 401
      [] kind = "Forbidden" -> 403
      [] kind \in {"ValidationFailed", "Conflict", "InsufficientStock"} -> 400
      [] kind = "NotFound" -> 404
      [] kind = "Transient" -> 503

\* C22 (as claimed): every failure is answered with the status of its kind on
\* every endpoint: 401, 403, 400, 404, 400, 400, and 503 for a storage failure.
C22_StatusPerKind ==
    \A p \in Procs :
        (Answered(p) /\ Kind(http[p]) # "none") =>
            http[p].status = StatusOf(Kind(http[p]))

\* The messages the application itself words.
AppMessages ==
    {NotFoundMsg, InsufficientMsg, PurchaseQtyMsg, RestockQtyMsg, NameExistsMsg,
     NoTokenMsg, InvalidTokenMsg, AdminRequiredMsg, ValidationFailedMsg,
     PurchaseFailedMsg, RestockFailedMsg}

\* C23 (as claimed): when a persistence call of any endpoint fails with a
\* storage error, the error text of the answer is one of the application's
\* fixed messages, never the text of the storage error.
C23_NoStorageText ==
    \A p \in Procs :
        (Answered(p) /\ http[p].result = P1001) =>
            (http[p].error \in AppMessages /\ http[p].error # P1001)

\* ------------------------------------------- validation and the ledger
\* C26 (as claimed): a purchase or restock payload that validation accepts
\* (quantity coerces to a positive integer, as a number or as a string) never
\* fails the ledger's own quantity check.
C26_AcceptedIsApplied ==
    \A p \in Procs :
        (/\ Answered(p)
         /\ http[p].route \in {"purchase", "restock"}
         /\ "validate" \in {http[p].ran[k] : k \in 1..Len(http[p].ran)}
         /\ validate(http[p]) = Pass)
        => http[p].result \notin {PurchaseQtyMsg, RestockQtyMsg}

\* ------------------------------------------------- frame of the ledger
\* C28: a purchase or restock that writes changes only the quantity (and
\* updatedAt) of the Sweet it names; the Sweet's other columns and every other
\* Sweet stay as they were, also when requests on distinct Sweets interleave.
C28_LedgerFrame ==
    [][\A p \in Procs :
        (/\ req[p].op \in {"purchase", "restock"} /\ req[p].pc = "write"
         /\ req'[p].pc = "done") =>
            LET id == req[p].id
            IN  /\ \A f \in (DOMAIN sweets[id]) \ {"quantity", "updatedAt"} :
                        sweets'[id][f] = sweets[id][f]
                /\ \A j \in Ids \ {id} : sweets'[j] = sweets[j]]_vars

\* C28 witness: a purchase and a restock on two distinct Sweets were both in
\* flight and both have written.
C28_Witness ==
    \E p, r \in Procs :
        /\ req[p].op = "purchase" /\ req[p].pc = "done" /\ req[p].wrote
        /\ req[r].op = "restock" /\ req[r].pc = "done" /\ req[r].wrote
        /\ req[p].id # req[r].id
        /\ sweets[req[p].id].quantity # base[req[p].id]
        /\ sweets[req[r].id].quantity # base[req[r].id]

\* ------------------------------------------------------------ user service
UserExistsMsg == "User already exists"
InvalidCredentialsMsg == "Invalid credentials"
UserNotFoundMsg == "User not found"
\* What prisma.user.create rejects with when the email is taken.
P2002Email == "P2002 Unique constraint failed on the fields: (email)"
\* The role a row gets when the create data names none.
DefaultRole == "USER"

\* bcrypt.hash(password, 10): the digest is not the password.
hashPassword(pw) ==
    CASE pw = "secret1" -> "$2a$10$secret1-digest"
      [] pw = "other12" -> "$2a$10$other12-digest"
      [] OTHER -> "$2a$10$digest"
\* bcrypt.compare(password, hash)
comparePassword(pw, h) == hashPassword(pw) = h
\* jwt.sign(payload, secret): the token carries the claims it is signed over.
generateToken(payload) == <<payload.id, payload.email, payload.role>>

\* z.string().email() on the strings the requests carry.
IsEmail(s) == s \in {"a@x.io", "b@x.io"}
\* The length of the passwords the requests carry.
Length(s) == CASE s = "secret1" -> 7 [] s = "other12" -> 7 [] s = "12345" -> 5 [] OTHER -> 0

\* Keys the schema does not name are not an error (the object is not strict).
CreateUserSchema(b) ==
    /\ b.email.t = "str" /\ IsEmail(b.email.s)
    /\ b.password.t = "str" /\ Length(b.password.s) >= 6
    /\ Optional(b.name, AnyString(b.name))

LoginSchema(b) ==
    /\ b.email.t = "str" /\ IsEmail(b.email.s)
    /\ b.password.t = "str"

UFree(p) == ureq[p].pc = "idle" /\ \A r \in Procs : r < p => ureq[r].pc # "idle"
UFinish(r, res, st) == [r EXCEPT !.pc = "done", !.result = res, !.status = st]

\* findUnique({where: {email}}): the row and its id, if there is one.
ByEmail(email) == {i \in UserIds : users[i].live /\ users[i].email = email}
FoundId(email) == IF ByEmail(email) = {} THEN "" ELSE CHOOSE i \in ByEmail(email) : TRUE
Found(email) == IF ByEmail(email) = {} THEN NoUser ELSE users[FoundId(email)]

\* select: {id, email, name, role, createdAt}
Selected(id, row) ==
    [NoOut EXCEPT !.fields = {"id", "email", "name", "role", "createdAt"},
                  !.id = id, !.email = row.email, !.name = row.name,
                  !.role = row.role, !.createdAt = row.createdAt]

\* POST /register: validate(CreateUserSchema), then register calls createUser
\* with the request's body; the lookup by email is issued.
Register(p, b) ==
    /\ UFree(p)
    /\ ureq' = [ureq EXCEPT ![p] =
            LET r == [UIdle EXCEPT !.op = "register", !.body = b]
            IN  IF ~CreateUserSchema(b) THEN UFinish(r, ValidationFailedMsg, 400)
                ELSE [r EXCEPT !.pc = "find"]]
    /\ UNCHANGED <<sweets, req, nextId, base, sold, added, log, http, clock, users, store, calls>>

\* createUser: findUnique resolves, then the existence check.
CreateUserFind(p) ==
    /\ ureq[p].op = "register" /\ ureq[p].pc = "find"
    /\ LET existingUser == Found(ureq[p].body.email.s)
       IN  ureq' = [ureq EXCEPT ![p] =
                IF existingUser.live
                THEN UFinish([@ EXCEPT !.existing = existingUser], UserExistsMsg, 400)
                ELSE [@ EXCEPT !.pc = "hash"]]
    /\ UNCHANGED <<sweets, req, nextId, base, sold, added, log, http, clock, users, store, calls>>

\* createUser: hashPassword resolves.
CreateUserHash(p) ==
    /\ ureq[p].op = "register" /\ ureq[p].pc = "hash"
    /\ ureq' = [ureq EXCEPT ![p] =
            [@ EXCEPT !.hashed = hashPassword(ureq[p].body.password.s), !.pc = "write"]]
    /\ UNCHANGED <<sweets, req, nextId, base, sold, added, log, http, clock, users, store, calls>>

\* data: {...userData, password: hashedPassword}: every key of the body is a
\* column value; a column the body does not name takes its default.
NewUser(b, hashed) ==
    [live |-> TRUE, email |-> b.email.s, password |-> hashed,
     name |-> IF b.name.t = "absent" THEN "" ELSE b.name.s,
     role |-> IF b.role.t = "absent" THEN DefaultRole ELSE b.role.s,
     createdAt |-> clock]

NextUserId == UserPool[Cardinality({i \in UserIds : users[i].live}) + 1]

\* Mutant of CreateUserWrite: the table has no unique index on email.
CreateUserWriteNoIndex(p) ==
    /\ ureq[p].op = "register" /\ ureq[p].pc = "write"
    /\ Cardinality({i \in UserIds : users[i].live}) < Len(UserPool)
    /\ LET row == NewUser(ureq[p].body, ureq[p].hashed)
       IN  /\ users' = [users EXCEPT ![NextUserId] = row]
           /\ ureq' = [ureq EXCEPT ![p] =
                    UFinish([@ EXCEPT !.id = NextUserId, !.wrote = TRUE,
                                      !.out = Selected(NextUserId, row)], OK, 201)]
    /\ UNCHANGED <<sweets, req, nextId, base, sold, added, log, http, clock, store, calls>>

\* createUser: prisma.user.create resolves, or rejects on the unique index.
CreateUserWrite(p) ==
    /\ ureq[p].op = "register" /\ ureq[p].pc = "write"
    /\ Cardinality({i \in UserIds : users[i].live}) < Len(UserPool)
    /\ LET row == NewUser(ureq[p].body, ureq[p].hashed)
       IN  IF ByEmail(row.email) # {}
           THEN /\ ureq' = [ureq EXCEPT ![p] = UFinish(@, P2002Email, 400)]
                /\ UNCHANGED users
           ELSE /\ users' = [users EXCEPT ![NextUserId] = row]
                /\ ureq' = [ureq EXCEPT ![p] =
                        UFinish([@ EXCEPT !.id = NextUserId, !.wrote = TRUE,
                                          !.out = Selected(NextUserId, row)], OK, 201)]
    /\ UNCHANGED <<sweets, req, nextId, base, sold, added, log, http, clock, store, calls>>

\* POST /login: validate(LoginSchema), then login calls loginUser with the body.
Login(p, b) ==
    /\ UFree(p)
    /\ ureq' = [ureq EXCEPT ![p] =
            LET r == [UIdle EXCEPT !.op = "login", !.body = b]
            IN  IF ~LoginSchema(b) THEN UFinish(r, ValidationFailedMsg, 400)
                ELSE [r EXCEPT !.pc = "find"]]
    /\ UNCHANGED <<sweets, req, nextId, base, sold, added, log, http, clock, users, store, calls>>

\* loginUser: findUnique resolves with the whole row, then the existence check.
LoginFind(p) ==
    /\ ureq[p].op = "login" /\ ureq[p].pc = "find"
    /\ LET user == Found(ureq[p].body.email.s)
       IN  ureq' = [ureq EXCEPT ![p] =
                IF ~user.live THEN UFinish(@, InvalidCredentialsMsg, 401)
                ELSE [@ EXCEPT !.existing = user, !.id = FoundId(ureq[p].body.email.s),
                               !.pc = "compare"]]
    /\ UNCHANGED <<sweets, req, nextId, base, sold, added, log, http, clock, users, store, calls>>

\* Mutant of LoginCompare: the row that was read is returned as it is.
LoginCompareWholeRow(p) ==
    /\ ureq[p].op = "login" /\ ureq[p].pc = "compare"
    /\ LET user == ureq[p].existing
       IN  ureq' = [ureq EXCEPT ![p] =
                IF ~comparePassword(ureq[p].body.password.s, user.password)
                THEN UFinish(@, InvalidCredentialsMsg, 401)
                ELSE UFinish([@ EXCEPT !.out =
                        [NoOut EXCEPT !.fields = {"token", "id", "email", "name", "role",
                                                  "password", "createdAt"},
                            !.token = generateToken([id |-> ureq[p].id, email |-> user.email,
                                                     role |-> user.role]),
                            !.id = ureq[p].id, !.email = user.email, !.name = user.name,
                            !.role = user.role, !.password = user.password,
                            !.createdAt = user.createdAt]], OK, 200)]
    /\ UNCHANGED <<sweets, req, nextId, base, sold, added, log, http, clock, users, store, calls>>

\* loginUser: comparePassword resolves; the token is signed and the user's
\* id, email, name and role are returned with it.
LoginCompare(p) ==
    /\ ureq[p].op = "login" /\ ureq[p].pc = "compare"
    /\ LET user == ureq[p].existing
       IN  ureq' = [ureq EXCEPT ![p] =
                IF ~comparePassword(ureq[p].body.password.s, user.password)
                THEN UFinish(@, InvalidCredentialsMsg, 401)
                ELSE UFinish([@ EXCEPT !.out =
                        [NoOut EXCEPT !.fields = {"token", "id", "email", "name", "role"},
                            !.token = generateToken([id |-> ureq[p].id, email |-> user.email,
                                                     role |-> user.role]),
                            !.id = ureq[p].id, !.email = user.email, !.name = user.name,
                            !.role = user.role]], OK, 200)]
    /\ UNCHANGED <<sweets, req, nextId, base, sold, added, log, http, clock, users, store, calls>>

\* GET /profile: authenticate, then getProfile calls getUserById with the
\* token's id; the lookup by id is issued.
GetProfile(p, id) ==
    /\ UFree(p)
    /\ ureq' = [ureq EXCEPT ![p] = [UIdle EXCEPT !.op = "profile", !.id = id, !.pc = "find"]]
    /\ UNCHANGED <<sweets, req, nextId, base, sold, added, log, http, clock, users, store, calls>>

\* getUserById: findUnique with the select resolves, then the existence check.
GetUserFind(p) ==
    /\ ureq[p].op = "profile" /\ ureq[p].pc = "find"
    /\ ureq' = [ureq EXCEPT ![p] =
            IF ~users[ureq[p].id].live THEN UFinish(@, UserNotFoundMsg, 404)
            ELSE UFinish([@ EXCEPT !.out = Selected(ureq[p].id, users[ureq[p].id])], OK, 200)]
    /\ UNCHANGED <<sweets, req, nextId, base, sold, added, log, http, clock, users, store, calls>>

\* ------------------------------------------- concurrent user requests
UserBody(e, pw, role) ==
    [NoUserBody EXCEPT !.email = JStr(e), !.password = JStr(pw), !.role = role]
RegisterBodies ==
    {UserBody(e, "secret1", role) : e \in {"a@x.io", "b@x.io"},
                                    role \in {JAbsent, JStr("ADMIN")}}
        \cup {UserBody("a@x.io", "12345", JAbsent), UserBody("nobody", "secret1", JAbsent)}
LoginBodies ==
    {UserBody(e, pw, JAbsent) : e \in {"a@x.io", "b@x.io"}, pw \in {"secret1", "other12"}}
ProfileIds == {UserPool[1], UserPool[2]}

\* Nobody has registered yet, or a@x.io has.
UserTables ==
    {NoUsers,
     [NoUsers EXCEPT ![UserPool[1]] = NewUser(UserBody("a@x.io", "secret1", JAbsent),
                                               hashPassword("secret1"))]}

UsersInit ==
    /\ sweets = EmptyTable
    /\ req = [p \in Procs |-> Idle]
    /\ nextId = 1
    /\ base = [i \in Ids |-> 0]
    /\ sold = [i \in Ids |-> 0]
    /\ added = [i \in Ids |-> 0]
    /\ log = <<>>
    /\ http = [p \in Procs |-> NoHttp]
    /\ clock = 0
    /\ users \in UserTables
    /\ ureq = [p \in Procs |-> UIdle]
    /\ store = EmptyStore
    /\ calls = [p \in Procs |-> NoCall]

UsersNext ==
    \/ \E p \in Procs, b \in RegisterBodies : Register(p, b)
    \/ \E p \in Procs : CreateUserFind(p)
    \/ \E p \in Procs : CreateUserHash(p)
    \/ \E p \in Procs : CreateUserWrite(p)
    \/ \E p \in Procs, b \in LoginBodies : Login(p, b)
    \/ \E p \in Procs : LoginFind(p)
    \/ \E p \in Procs : LoginCompare(p)
    \/ \E p \in Procs, id \in ProfileIds : GetProfile(p, id)
    \/ \E p \in Procs : GetUserFind(p)

SpecUsers == UsersInit /\ [][UsersNext]_vars

\* The password hashes the table stores.
Hashes == {users[i].password : i \in {j \in UserIds : users[j].live}}
Answer(p) == ureq[p].out

\* C24: no result of register, login or profile, whatever the outcome, holds a
\* stored password hash: no password property, no property, token claim or
\* error message equal to a hash.
C24_NoHashReturned ==
    \A p \in Procs :
        /\ "password" \notin Answer(p).fields
        /\ \A f \in Answer(p).fields \ {"createdAt", "token"} : Answer(p)[f] \notin Hashes
        /\ \A k \in 1..Len(Answer(p).token) : Answer(p).token[k] \notin Hashes
        /\ ureq[p].result \notin Hashes

\* C24 witness: a login has succeeded for a user whose hash is stored.
C24_Witness ==
    \E p \in Procs :
        /\ ureq[p].op = "login" /\ ureq[p].pc = "done" /\ ureq[p].status = 200
        /\ users[ureq[p].id].password = hashPassword("secret1")
        /\ "token" \in Answer(p).fields

Registrations == {p \in Procs : ureq[p].op = "register"}

\* C25: no two Users share an email; a registration whose lookup finds the
\* email held fails with 'User already exists' without hashing or creating;
\* of the registrations with one email at most one creates a User.
C25_EmailUnique ==
    /\ \A i, j \in UserIds :
            (users[i].live /\ users[j].live /\ users[i].email = users[j].email) => i = j
    /\ \A p \in Registrations :
            ureq[p].existing.live =>
                /\ ureq[p].pc = "done" /\ ureq[p].result = UserExistsMsg
                /\ ureq[p].status = 400
                /\ ureq[p].hashed = "" /\ ~ureq[p].wrote
    /\ \A p, r \in Registrations :
            (ureq[p].wrote /\ ureq[r].wrote
             /\ ureq[p].body.email = ureq[r].body.email) => p = r

\* C25 witness: two registrations with one email raced; one created the User,
\* the other was refused by the table.
C25_Witness ==
    \E p, r \in Registrations :
        /\ p # r /\ ureq[p].body.email = ureq[r].body.email
        /\ ureq[p].wrote /\ ureq[r].pc = "done" /\ ureq[r].result = P2002Email
        /\ ureq[r].hashed # ""

\* C29 (as claimed): the role of a User created by a registration is the
\* default role, whatever fields the payload carries.
C29_RoleNotFromPayload ==
    \A p \in Registrations :
        ureq[p].wrote => users[ureq[p].id].role = DefaultRole

\* ------------------------------------------------- frontend sweet store
\* A Sweet as the API returns it to the store.
StoreSweet(id, q) ==
    [id |-> id,
     name |-> CASE id = IdPool[1] -> "Barfi" [] id = IdPool[2] -> "Ladoo" [] OTHER -> "Candy",
     description |-> "",
     price |-> CASE id = IdPool[1] -> 10 [] id = IdPool[2] -> 30 [] OTHER -> 20,
     quantity |-> q]

\* sweet passes the search term and the filters (the callback of sweets.filter).
Shown(sweet, searchTerm, filters) ==
    /\ searchTerm # "" =>
            \/ ContainsInsensitive(sweet.name, searchTerm)
            \/ sweet.description # "" /\ ContainsInsensitive(sweet.description, searchTerm)
    /\ ~("minPrice" \in filters.fields /\ sweet.price < filters.minPrice)
    /\ ~("maxPrice" \in filters.fields /\ sweet.price > filters.maxPrice)
    /\ ~("inStock" \in filters.fields /\ filters.inStock /\ sweet.quantity <= 0)

Filtered(st) == SelectSeq(st.sweets, LAMBDA sweet : Shown(sweet, st.searchTerm, st.filters))

\* computeFilteredSweets: set({filteredSweets: filtered})
computeFilteredSweets(st) == [st EXCEPT !.filteredSweets = Filtered(st)]

\* {...state.filters, ...newFilters}
Merged(filters, newFilters) ==
    [fields |-> filters.fields \cup newFilters.fields,
     minPrice |-> IF "minPrice" \in newFilters.fields THEN newFilters.minPrice
                  ELSE filters.minPrice,
     maxPrice |-> IF "maxPrice" \in newFilters.fields THEN newFilters.maxPrice
                  ELSE filters.maxPrice,
     inStock |-> IF "inStock" \in newFilters.fields THEN newFilters.inStock
                 ELSE filters.inStock]

\* The message the store keeps when the API call of an action fails.
FailedMsg(op) ==
    CASE op = "fetchSweets" -> "Failed to fetch sweets. Please try again."
      [] op = "addSweet" -> "Failed to add sweet. Please try again."
      [] op = "updateSweet" -> "Failed to update sweet. Please try again."
      [] op = "deleteSweet" -> "Failed to delete sweet. Please try again."
      [] op = "purchaseSweet" -> "Failed to purchase sweet. Please try again."
      [] op = "restockSweet" -> "Failed to restock sweet. Please try again."
      [] op = "searchSweets" -> "Search failed. Please try again."

AsyncOps == {"fetchSweets", "addSweet", "updateSweet", "deleteSweet", "purchaseSweet",
             "restockSweet", "searchSweets"}

\* A slot runs one asynchronous action; slots are taken in order.
CallFree(p) == calls[p].op = "none" /\ \A r \in Procs : r < p => calls[r].op # "none"
Pending(p, ops) == calls[p].op \in ops /\ calls[p].pc = "pending"
Completed(p) == [calls EXCEPT ![p].pc = "settled"]

\* Every asynchronous action begins with set({isLoading: true, error: null})
\* and awaits its API call.
Begin(p, op, id) ==
    /\ CallFree(p)
    /\ calls' = [calls EXCEPT ![p] = [op |-> op, id |-> id, pc |-> "pending"]]
    /\ store' = [store EXCEPT !.isLoading = TRUE, !.error = ""]
    /\ UNCHANGED <<sweets, req, nextId, base, sold, added, log, http, clock, users, ureq>>

\* fetchSweets: sweetAPI.getAll resolves.
FetchSweetsResolve(p, list) ==
    /\ Pending(p, {"fetchSweets"})
    /\ store' = computeFilteredSweets(
            [store EXCEPT !.sweets = list, !.isLoading = FALSE, !.error = ""])
    /\ calls' = Completed(p)
    /\ UNCHANGED <<sweets, req, nextId, base, sold, added, log, http, clock, users, ureq>>

\* fetchSweets and searchSweets: the API call rejects.
ListReject(p) ==
    /\ Pending(p, {"fetchSweets", "searchSweets"})
    /\ store' = [store EXCEPT !.sweets = <<>>, !.isLoading = FALSE,
                              !.error = FailedMsg(calls[p].op)]
    /\ calls' = Completed(p)
    /\ UNCHANGED <<sweets, req, nextId, base, sold, added, log, http, clock, users, ureq>>

\* addSweet: sweetAPI.create resolves with the new Sweet.
AddSweetResolve(p, newSweet) ==
    /\ Pending(p, {"addSweet"})
    /\ \A k \in 1..Len(store.sweets) : store.sweets[k].id # newSweet.id
    /\ store' = [store EXCEPT !.sweets = Append(@, newSweet), !.isLoading = FALSE,
                              !.error = ""]
    /\ calls' = Completed(p)
    /\ UNCHANGED <<sweets, req, nextId, base, sold, added, log, http, clock, users, ureq>>

\* updateSweet, purchaseSweet, restockSweet: the API call resolves with the
\* Sweet as it now is; it takes the place of the one with its id.
ReplaceResolve(p, updatedSweet) ==
    /\ Pending(p, {"updateSweet", "purchaseSweet", "restockSweet"})
    /\ updatedSweet.id = calls[p].id
    /\ store' = [store EXCEPT
            !.sweets = [k \in 1..Len(@) |->
                            IF @[k].id = calls[p].id THEN updatedSweet ELSE @[k]],
            !.isLoading = FALSE, !.error = ""]
    /\ calls' = Completed(p)
    /\ UNCHANGED <<sweets, req, nextId, base, sold, added, log, http, clock, users, ureq>>

\* deleteSweet: sweetAPI.delete resolves.
DeleteSweetResolve(p) ==
    /\ Pending(p, {"deleteSweet"})
    /\ store' = [store EXCEPT
            !.sweets = SelectSeq(@, LAMBDA sweet : sweet.id # calls[p].id),
            !.isLoading = FALSE, !.error = ""]
    /\ calls' = Completed(p)
    /\ UNCHANGED <<sweets, req, nextId, base, sold, added, log, http, clock, users, ureq>>

\* searchSweets: sweetAPI.search resolves.
SearchSweetsResolve(p, list) ==
    /\ Pending(p, {"searchSweets"})
    /\ store' = [store EXCEPT !.sweets = list, !.isLoading = FALSE, !.error = ""]
    /\ calls' = Completed(p)
    /\ UNCHANGED <<sweets, req, nextId, base, sold, added, log, http, clock, users, ureq>>

\* addSweet, updateSweet, deleteSweet, purchaseSweet, restockSweet: the API
\* call rejects.
ChangeReject(p) ==
    /\ Pending(p, {"addSweet", "updateSweet", "deleteSweet", "purchaseSweet",
                   "restockSweet"})
    /\ store' = [store EXCEPT !.isLoading = FALSE, !.error = FailedMsg(calls[p].op)]
    /\ calls' = Completed(p)
    /\ UNCHANGED <<sweets, req, nextId, base, sold, added, log, http, clock, users, ureq>>

setSearchTerm(term) ==
    /\ store' = computeFilteredSweets([store EXCEPT !.searchTerm = term])
    /\ UNCHANGED <<sweets, req, nextId, base, sold, added, log, http, clock, users, ureq, calls>>

setFilters(newFilters) ==
    /\ store' = computeFilteredSweets([store EXCEPT !.filters = Merged(@, newFilters)])
    /\ UNCHANGED <<sweets, req, nextId, base, sold, added, log, http, clock, users, ureq, calls>>

clearFilters ==
    /\ store' = computeFilteredSweets([store EXCEPT !.searchTerm = "", !.filters = NoFilters])
    /\ UNCHANGED <<sweets, req, nextId, base, sold, added, log, http, clock, users, ureq, calls>>

\* ------------------------------------------------- a page using the store
\* What the API answers with.
ApiLists ==
    {<<>>, <<StoreSweet(IdPool[1], 2)>>, <<StoreSweet(IdPool[1], 2), StoreSweet(IdPool[2], 0)>>}
ApiSweets == {StoreSweet(IdPool[1], 1), StoreSweet(IdPool[3], 1)}
\* What the page passes to the store.
StoreIds == {IdPool[1]}
Terms == {"oo"}
FilterInputs == {[NoFilters EXCEPT !.fields = {"inStock"}, !.inStock = TRUE]}

StoreInit ==
    /\ sweets = EmptyTable
    /\ req = [p \in Procs |-> Idle]
    /\ nextId = 1
    /\ base = [i \in Ids |-> 0]
    /\ sold = [i \in Ids |-> 0]
    /\ added = [i \in Ids |-> 0]
    /\ log = <<>>
    /\ http = [p \in Procs |-> NoHttp]
    /\ clock = 0
    /\ users = NoUsers
    /\ ureq = [p \in Procs |-> UIdle]
    /\ store = EmptyStore
    /\ calls = [p \in Procs |-> NoCall]

StoreNext ==
    \/ \E p \in Procs, op \in {"fetchSweets", "addSweet", "searchSweets"} : Begin(p, op, "")
    \/ \E p \in Procs, id \in StoreIds,
          op \in {"updateSweet", "deleteSweet", "purchaseSweet", "restockSweet"} :
            Begin(p, op, id)
    \/ \E p \in Procs, list \in ApiLists : FetchSweetsResolve(p, list)
    \/ \E p \in Procs : ListReject(p)
    \/ \E p \in Procs, sweet \in ApiSweets : AddSweetResolve(p, sweet)
    \/ \E p \in Procs, sweet \in ApiSweets : ReplaceResolve(p, sweet)
    \/ \E p \in Procs : DeleteSweetResolve(p)
    \/ \E p \in Procs, list \in ApiLists : SearchSweetsResolve(p, list)
    \/ \E p \in Procs : ChangeReject(p)
    \/ \E term \in Terms : setSearchTerm(term)
    \/ \E f \in FilterInputs : setFilters(f)
    \/ clearFilters

SpecStore == StoreInit /\ [][StoreNext]_vars

\* C27 (as claimed): after every store action, filteredSweets is the sweets
\* array filtered by the search term and the filters of that moment.
C27_FilteredInSync == store.filteredSweets = Filtered(store)

\* C30 (as claimed): isLoading is true exactly while some asynchronous action
\* is in flight.
C30_LoadingWhileInFlight ==
    store.isLoading <=> (\E p \in Procs : calls[p].op # "none" /\ calls[p].pc = "pending")
====
